---- MODULE Spec2Model ----
(***************************************************************************)
(* Hybrid model routing and resilience core of agent-assistant:            *)
(*   - HybridLLMSystem (src/src/agent/llm_system.py): per-tier model lock  *)
(*     manager (warmup, probe, lock, unlock, relock, get_model);           *)
(*   - Router (src/src/agent/router.py): tier decision function;           *)
(*   - HybridAgent (src/src/agent/workflow.py): the LangGraph workflow     *)
(*     classify -> route -> agent -> [tools -> agent]* -> END;             *)
(*   - Config (src/src/utils/config.py): sticky store and routing flags.   *)
(***************************************************************************)
EXTENDS Integers, Sequences, FiniteSets, TLC

\* ------------------------------------------------------------------------
\* Configuration and bounds
\* ------------------------------------------------------------------------

None == "None"

Tiers == {"local", "remote"}

\* llm.local.available_models, in configured (priority) order
LocalModels == <<"l1", "l2">>

\* llm.remote.available_models, in configured (priority) order
RemoteModels == <<"r1", "r2", "r3", "r4">>

\* a model id that is in no configured list (a stale sticky value)
StaleModel == "x"

\* number of tool calls a model response that requests tools carries
ToolCallsPerResponse == 3

\* config.get('agent.max_iterations', 10): the default
DefaultMaxIterations == 10

\* values of agent.max_iterations the runs are checked for
MaxIterationsValues == {4, DefaultMaxIterations}

SeqToSet(s) == {s[i] : i \in 1..Len(s)}

LocalIds == SeqToSet(LocalModels)

RemoteIds == SeqToSet(RemoteModels)

\* llm.local.model: the default local model of _setup_models
DefaultLocalModel == LocalModels[1]

\* llm.remote.model as configured at process start
DefaultRemoteModel == RemoteModels[1]

VARIABLES
    \* --- HybridLLMSystem (process-wide) ---
    local_model,                  \* _local_model: None, or the id its instance is built for
    remote_model,                 \* _remote_model: None, or the id its instance is built for
    current_local_model,          \* _current_local_model
    current_remote_model,         \* _current_remote_model (the field)
    locked_local_model,           \* _locked_local_model
    locked_remote_model,          \* _locked_remote_model
    \* --- Config (process-wide) ---
    cfg_remote_model,             \* llm.remote.model
    sticky_model,                 \* llm.routing.sticky_model
    last_successful_local_model,  \* llm.routing.last_successful_local_model
    last_successful_remote_model, \* llm.routing.last_successful_remote_model
    prefer_local,                 \* llm.routing.prefer_local
    cfg_force_model,              \* llm.routing.force_model
    max_iterations,               \* agent.max_iterations
    \* --- observations of the lock manager's calls ---
    probed,                       \* the latest warmup/relock pass: its tier, the ids it probed,
                                  \* whether its last probe returned a non-empty response
                                  \* (reset by the calls that are no pass)
    gm,                           \* the latest call, when it is get_model: tier, lock before,
                                  \* outcome, the id of the instance returned
    unlock_call,                  \* the tier of the latest call, when it is unlock_model
                                  \* called on its own
    \* --- HybridAgent and the AgentState of the current run ---
    graph,                        \* self.graph is built
    pc,                           \* node about to execute: idle, classify, route, agent, tools, END
    classification,
    model_tier,
    retry_count,
    error,
    tool_calls_made,
    force_model,
    remote_retry_count,
    last_message,                 \* kind of messages[-1]: none, ai, ai_tool_calls, tool
    \* --- observations of the run ---
    decision,                     \* latest value returned by _should_continue
    route_relock,                 \* latest route step: none, locked, failed (relock outcome)
    invoked,                      \* latest agent step: tier, model invoked (None: get_model
                                  \* raised), lock at get_model, success, the node before
    last_node,                    \* the node that ran last in the run (none: none yet)
    episode_ids,                  \* remote ids relocked/invoked on the retry path of the episode
    episode,                      \* none, open (after the first remote failure), closed (fallback)
    run_outcome,                  \* none, returned, raised
    result,                       \* the dict run() returned: has error / messages
    \* --- Router.route called on its own ---
    route_args,
    route_result,
    route_prev,                   \* the route call before the latest one: whether it had the
                                  \* same arguments, and what it returned
    escalation,                   \* the latest should_escalate call: arguments and result
    \* --- MemoryManager ---
    max_messages,                 \* agent.memory.max_messages
    reserve_tokens,               \* agent.memory.reserve_tokens
    mm_call,                      \* the latest manage_context / truncate_messages call:
                                  \* operation, messages, model id, tier
    mm_result,                    \* the list it returned
    mm_again,                     \* manage_context applied to that list with the same model
    \* --- concurrent callers of relock_model ---
    relockers,                    \* per caller: position in its pass, tier, probes, ids probed,
                                  \* the callers whose pass overlapped with it
    \* --- the classifier called on its own ---
    cls_query,                    \* the query of the latest classification (its features)
    cls_result,                   \* what classify_task did and returned
    \* --- the sticky store called on its own ---
    store_call,                   \* the latest call of the store: operation, tier, value
    config_file,                  \* the sticky values that config.yaml holds (store on its own)
    switch_call,                  \* the latest switch_remote_model call: id and outcome
    \* --- the CLI session (service.py) and the routing mode it keeps ---
    cli,                          \* the session: running, its force_model, the mode the
                                  \* command 'current' showed, the mode reported as persisted, the
                                  \* force_model of its latest run
    user_force_model,             \* llm.routing.user_force_model of the running process
    file_user_force_model,        \* the YAML text of that key in config.yaml
    \* --- the messages channel of the graph ---
    channel_messages,             \* state["messages"] of the run (followed in SpecChannel)
    agent_io                      \* the latest agent step: the history the model was invoked
                                  \* with, its response, the channel before the step

lock_vars == <<local_model, remote_model, current_local_model, current_remote_model,
               locked_local_model, locked_remote_model, cfg_remote_model,
               last_successful_local_model, last_successful_remote_model>>

config_vars == <<sticky_model, prefer_local, cfg_force_model, max_iterations>>

obs_lock_vars == <<probed, gm, unlock_call>>

state_vars == <<classification, model_tier, retry_count, error, tool_calls_made,
                force_model, remote_retry_count, last_message>>

obs_run_vars == <<decision, route_relock, invoked, last_node, episode_ids, episode,
                  run_outcome, result>>

agent_vars == <<graph, pc>>

router_vars == <<route_args, route_result, route_prev, escalation>>

memory_vars == <<max_messages, reserve_tokens, mm_call, mm_result, mm_again>>

cli_vars == <<cli, user_force_model, file_user_force_model>>

store_vars == <<store_call, config_file, switch_call, cli_vars>>

channel_vars == <<channel_messages, agent_io>>

ext_vars == <<relockers, cls_query, cls_result, store_vars, channel_vars>>

vars == <<lock_vars, config_vars, obs_lock_vars, state_vars, obs_run_vars, agent_vars,
          router_vars, memory_vars, ext_vars>>

\* ------------------------------------------------------------------------
\* Router (src/src/agent/router.py)
\* ------------------------------------------------------------------------

Complexities == {"simple", "medium", "complex", "code"}

\* total_tokens above which route sends the task to remote
LongContextThreshold == 1000

\* TaskClassification: complexity, requires_tools, estimated_tokens
Classification(cx, rt, et) == [complexity |-> cx, requires_tools |-> rt, estimated_tokens |-> et]

\* state["classification"] before the classify node has run
NoClassification == [complexity |-> None, requires_tools |-> FALSE, estimated_tokens |-> 0]

\* force = force_model or config.get('llm.routing.force_model')
EffectiveForce(fm, cfm) == IF fm # None THEN fm ELSE cfm

\* RouteByComplexity with the medium rule ignoring prefer_local
RouteByComplexity_MediumLocal(c, pl) ==
    IF c.complexity = "simple" THEN "local"
    ELSE IF c.complexity = "code" THEN (IF c.requires_tools THEN "remote" ELSE "local")
    ELSE IF c.complexity = "complex" THEN "remote"
    ELSE "local"

\* the complexity rules of route, reached when both tiers are available and
\* the context is not long
RouteByComplexity(c, pl) ==
    IF c.complexity = "simple" THEN "local"
    ELSE IF c.complexity = "code" THEN (IF c.requires_tools THEN "remote" ELSE "local")
    ELSE IF c.complexity = "complex" THEN "remote"
    ELSE (IF pl THEN "local" ELSE "remote")

\* AutoRoute with the long-context rule after the simple rule
AutoRoute_SimpleFirst(c, context_tokens, lavail, ravail, pl) ==
    LET total_tokens == c.estimated_tokens + context_tokens IN
    IF ~lavail THEN "remote"
    ELSE IF ~ravail THEN "local"
    ELSE IF c.complexity = "simple" THEN "local"
    ELSE IF total_tokens > LongContextThreshold THEN "remote"
    ELSE RouteByComplexity(c, pl)

\* the rules of route after the force override: availability, long context,
\* complexity
AutoRoute(c, context_tokens, lavail, ravail, pl) ==
    LET total_tokens == c.estimated_tokens + context_tokens IN
    IF ~lavail THEN "remote"
    ELSE IF ~ravail THEN "local"
    ELSE IF total_tokens > LongContextThreshold THEN "remote"
    ELSE RouteByComplexity(c, pl)

\* Route with the force override checked after the long-context rule
Route_LongContextFirst(c, context_tokens, fm, cfm, lavail, ravail, pl) ==
    LET force == EffectiveForce(fm, cfm) IN
    IF lavail /\ ravail /\ c.estimated_tokens + context_tokens > LongContextThreshold
    THEN "remote"
    ELSE IF force = "local" /\ lavail THEN "local"
    ELSE IF force = "remote" /\ ravail THEN "remote"
    ELSE AutoRoute(c, context_tokens, lavail, ravail, pl)

\* Route with the force override honoured without the availability check
Route_ForceUnchecked(c, context_tokens, fm, cfm, lavail, ravail, pl) ==
    LET force == EffectiveForce(fm, cfm) IN
    IF force \in Tiers THEN force
    ELSE AutoRoute(c, context_tokens, lavail, ravail, pl)

\* Route that answers remote whenever the call before it answered local
Route_AfterLocalRemote(c, context_tokens, fm, cfm, lavail, ravail, pl) ==
    LET force == EffectiveForce(fm, cfm) IN
    IF route_result = "local" /\ ravail THEN "remote"
    ELSE IF force = "local" /\ lavail THEN "local"
    ELSE IF force = "remote" /\ ravail THEN "remote"
    ELSE AutoRoute(c, context_tokens, lavail, ravail, pl)

\* Router.route(classification, context_tokens, force_model) under the
\* configuration (cfm, pl) and the tiers' availability
Route(c, context_tokens, fm, cfm, lavail, ravail, pl) ==
    LET force == EffectiveForce(fm, cfm) IN
    IF force = "local" /\ lavail THEN "local"
    ELSE IF force = "remote" /\ ravail THEN "remote"
    ELSE AutoRoute(c, context_tokens, lavail, ravail, pl)

\* should_escalate that does not ask whether remote is available
should_escalate_Unchecked(current_tier, ravail) ==
    IF current_tier = "local" THEN "remote" ELSE current_tier

\* Router.should_escalate(current_tier, error): the error text is not read
should_escalate(current_tier, ravail) ==
    IF current_tier = "local" /\ ravail THEN "remote" ELSE current_tier

\* ------------------------------------------------------------------------
\* Router: the classifier (src/src/agent/router.py)
\* ------------------------------------------------------------------------

\* a query, by what the classifiers read of it: its number of words, and
\* whether its lower-cased text contains a keyword of each list
\*   greeting:   hello, hi, hey, what is, define, who is, when was
\*   code:       code, function, debug, implement, script, program
\*   analytical: analyze, explain in detail, compare, evaluate, design, create a
\*   tools:      search, find, look up, browse, calculate, run, execute, file
\*   authoring:  draft, write, compose, cover letter, application (in no list
\*               of _simple_classify)
Query(words, greeting, code, analytical, tools, authoring) ==
    [words |-> words, greeting |-> greeting, code |-> code, analytical |-> analytical,
     tools |-> tools, authoring |-> authoring]

NoQuery == Query(0, FALSE, FALSE, FALSE, FALSE, FALSE)

\* simple_classify with the rule for long or analytical queries before the
\* rule for code keywords
simple_classify_ComplexFirst(q) ==
    IF q.words < 10 /\ q.greeting THEN Classification("simple", q.tools, 50)
    ELSE IF q.words > 50 \/ q.analytical THEN Classification("complex", q.tools, 800)
    ELSE IF q.code THEN Classification("code", q.tools, 300)
    ELSE Classification("medium", q.tools, 200)

\* Router._simple_classify(query)
simple_classify(q) ==
    IF q.words < 10 /\ q.greeting THEN Classification("simple", q.tools, 50)
    ELSE IF q.code THEN Classification("code", q.tools, 300)
    ELSE IF q.words > 50 \/ q.analytical THEN Classification("complex", q.tools, 800)
    ELSE Classification("medium", q.tools, 200)

\* what the classifier chain does: it returns a classification (llm), it
\* raises (raises), or it returns no TaskClassification (malformed: the
\* read of classification.complexity raises)
ClassifierOutcomes == {"llm", "raises", "malformed"}

\* classify_task without the except branch: a failure leaves no classification
classify_task_NoFallback(q, outcome, answer) ==
    IF outcome = "llm" THEN answer ELSE NoClassification

\* Router.classify_task(query) when the chain ends in outcome (answer: the
\* classification it returns)
classify_task(q, outcome, answer) ==
    IF outcome = "llm" THEN answer ELSE simple_classify(q)

NotClassified == [path |-> "none", classification |-> NoClassification]

\* ------------------------------------------------------------------------
\* HybridLLMSystem: the model lock manager (src/src/agent/llm_system.py)
\* ------------------------------------------------------------------------

is_local_available == local_model # None

is_remote_available == remote_model # None

get_locked_model(tier) ==
    IF tier = "local" THEN locked_local_model ELSE locked_remote_model

\* config.get_last_successful_model(tier)
get_last_successful_model(tier) ==
    IF tier = "local" THEN last_successful_local_model ELSE last_successful_remote_model

tier_configured(tier) == IF tier = "local" THEN is_local_available ELSE is_remote_available

available_models(tier) == IF tier = "local" THEN LocalModels ELSE RemoteModels

\* the sticky model a pass probes first, as a sequence of length 0 or 1
StickyPart(tier) ==
    IF sticky_model /\ get_last_successful_model(tier) # None
    THEN <<get_last_successful_model(tier)>> ELSE <<>>

\* ProbeSeq with the sticky model probed after the candidates
ProbeSeq_StickyLast(tier) ==
    IF tier_configured(tier) THEN available_models(tier) \o StickyPart(tier) ELSE <<>>

\* the probes of one _warmup_and_lock_<tier> pass when every probe fails:
\* the sticky model first, then the candidates in configured order
ProbeSeq(tier) ==
    IF tier_configured(tier) THEN StickyPart(tier) \o available_models(tier) ELSE <<>>

\* _test_local_model builds an instance for any id; _test_remote_model
\* first switches to the id, and config.set_remote_model raises ValueError
\* (caught: the probe fails) for an id that is not an available remote model
ProbeCanPass(tier, id) == tier = "local" \/ id \in RemoteIds

\* the outcomes of a pass: k = 0, every probe fails; k > 0, the k-th probe
\* is the first to return a non-empty response
PassOutcomes(tier) ==
    {k \in 0..Len(ProbeSeq(tier)) : k = 0 \/ ProbeCanPass(tier, ProbeSeq(tier)[k])}

\* the ids a pass with outcome k has probed, in order
Probed(tier, k) ==
    IF k = 0 THEN ProbeSeq(tier) ELSE SubSeq(ProbeSeq(tier), 1, k)

\* the k-th probe is the probe of the sticky model (no sticky write follows)
IsStickyProbe(tier, k) == k = 1 /\ StickyPart(tier) # <<>>

\* the model a pass with outcome k locks (None: the lock is left as it was)
PassLocks(tier, k) == IF k = 0 THEN None ELSE ProbeSeq(tier)[k]

\* PassWritesSticky without the test of llm.routing.sticky_model
PassWritesSticky_Unconditional(tier, k) == k > 0 /\ ~IsStickyProbe(tier, k)

\* the pass calls config.set_last_successful_model(tier, id)
PassWritesSticky(tier, k) == k > 0 /\ ~IsStickyProbe(tier, k) /\ sticky_model

\* the pass ends in an exception: the sticky write (open(config_path, 'w'))
\* fails; the lock and the in-memory value are set before it
PassRaises(tier, k, w) == PassWritesSticky(tier, k) /\ w = "raises"

LastOf(s) == s[Len(s)]

\* the remote ids among the probed ones: each made switch_remote_model run
SwitchedTo(k) == SelectSeq(Probed("remote", k), LAMBDA id : id \in RemoteIds)

\* _warmup_and_lock_local with outcome k
warmup_and_lock_local(k) ==
    /\ locked_local_model' = IF k = 0 THEN locked_local_model ELSE PassLocks("local", k)
    /\ last_successful_local_model' =
          IF PassWritesSticky("local", k) THEN PassLocks("local", k)
          ELSE last_successful_local_model

\* _warmup_and_lock_remote with outcome k; every probe of an available id
\* leaves config's remote model and the _remote_model instance on that id
warmup_and_lock_remote(k) ==
    /\ locked_remote_model' = IF k = 0 THEN locked_remote_model ELSE PassLocks("remote", k)
    /\ last_successful_remote_model' =
          IF PassWritesSticky("remote", k) THEN PassLocks("remote", k)
          ELSE last_successful_remote_model
    /\ cfg_remote_model' = IF SwitchedTo(k) = <<>> THEN cfg_remote_model ELSE LastOf(SwitchedTo(k))
    /\ remote_model' = IF SwitchedTo(k) = <<>> THEN remote_model ELSE LastOf(SwitchedTo(k))

local_lock_vars == <<locked_local_model, last_successful_local_model>>

remote_lock_vars == <<locked_remote_model, last_successful_remote_model, cfg_remote_model,
                      remote_model>>

\* the tier's lock once the step has run
LockedAfter(tier) == IF tier = "local" THEN locked_local_model' ELSE locked_remote_model'

\* relock_model that clears the lock of the other tier before its pass
relock_model_ClearsLocks(tier, k) ==
    IF tier = "local"
    THEN /\ warmup_and_lock_local(k)
         /\ probed' = [tier |-> "local", ids |-> Probed("local", k), passed |-> k > 0]
         /\ locked_remote_model' = None
         /\ UNCHANGED <<last_successful_remote_model, cfg_remote_model, remote_model>>
    ELSE /\ warmup_and_lock_remote(k)
         /\ probed' = [tier |-> "remote", ids |-> Probed("remote", k), passed |-> k > 0]
         /\ locked_local_model' = None
         /\ UNCHANGED last_successful_local_model

\* relock_model(tier) with outcome k
relock_model(tier, k) ==
    IF tier = "local"
    THEN /\ warmup_and_lock_local(k)
         /\ probed' = [tier |-> "local", ids |-> Probed("local", k), passed |-> k > 0]
         /\ UNCHANGED remote_lock_vars
    ELSE /\ warmup_and_lock_remote(k)
         /\ probed' = [tier |-> "remote", ids |-> Probed("remote", k), passed |-> k > 0]
         /\ UNCHANGED local_lock_vars

\* warmup(): the local pass (outcome kl), then, unless it raised, the remote
\* pass (outcome kr)
warmup(kl, wl, kr) ==
    /\ warmup_and_lock_local(kl)
    /\ IF PassRaises("local", kl, wl)
       THEN /\ UNCHANGED remote_lock_vars
            /\ probed' = [tier |-> "local", ids |-> Probed("local", kl), passed |-> kl > 0]
       ELSE /\ warmup_and_lock_remote(kr)
            /\ probed' = [tier |-> "remote", ids |-> Probed("remote", kr), passed |-> kr > 0]

\* switch_remote_model without the test of config.set_remote_model
switch_remote_model_raises_Never(model_id) == FALSE

\* config.set_remote_model(model_id) raises ValueError: the id is not one of
\* llm.remote.available_models (no remote section: no available model)
switch_remote_model_raises(model_id) ==
    ~is_remote_available \/ model_id \notin RemoteIds

\* switch_remote_model(model_id): config.set_remote_model, then
\* reload_remote_model builds the _remote_model instance of the configured
\* id (the write of config.yaml succeeds)
switch_remote_model(model_id) ==
    IF switch_remote_model_raises(model_id)
    THEN UNCHANGED <<cfg_remote_model, remote_model>>
    ELSE /\ cfg_remote_model' = model_id
         /\ remote_model' = model_id

\* unlock_model that clears the locks of both tiers
unlock_model_BothTiers(tier) ==
    /\ locked_local_model' = None
    /\ locked_remote_model' = None

\* unlock_model(tier)
unlock_model(tier) ==
    IF tier = "local"
    THEN /\ locked_local_model' = None
         /\ UNCHANGED locked_remote_model
    ELSE /\ locked_remote_model' = None
         /\ UNCHANGED locked_local_model

\* get_model(tier) raises ValueError: the tier is not configured, or
\* switch_remote_model refuses the locked id
get_model_raises(tier) ==
    IF tier = "local" THEN local_model = None
    ELSE \/ remote_model = None
         \/ /\ locked_remote_model # None
            /\ current_remote_model # locked_remote_model
            /\ locked_remote_model \notin RemoteIds

\* get_model(tier) re-points the tier's instance at the locked model
get_model_switches(tier) ==
    /\ ~get_model_raises(tier)
    /\ get_locked_model(tier) # None
    /\ (IF tier = "local" THEN current_local_model ELSE current_remote_model)
          # get_locked_model(tier)

\* the id of the instance get_model(tier) returns
get_model_returns(tier) ==
    IF get_model_switches(tier) THEN get_locked_model(tier)
    ELSE IF tier = "local" THEN local_model ELSE remote_model

\* get_model(tier): the state change of the call
get_model(tier) ==
    /\ IF tier = "local"
       THEN /\ current_local_model' =
                  IF get_model_switches(tier) THEN locked_local_model ELSE current_local_model
            /\ local_model' = IF get_model_switches(tier) THEN locked_local_model ELSE local_model
            /\ UNCHANGED <<current_remote_model, remote_model, cfg_remote_model>>
       ELSE /\ current_remote_model' =
                  IF get_model_switches(tier) THEN locked_remote_model ELSE current_remote_model
            /\ remote_model' = IF get_model_switches(tier) THEN locked_remote_model ELSE remote_model
            /\ cfg_remote_model' =
                  IF get_model_switches(tier) THEN locked_remote_model ELSE cfg_remote_model
            /\ UNCHANGED <<current_local_model, local_model>>

\* ------------------------------------------------------------------------
\* HybridAgent: the workflow (src/src/agent/workflow.py)
\* ------------------------------------------------------------------------

\* the remote alternatives the retry branch of route relocks before it
\* falls back to local
MaxRemoteRetries == 3

\* the classifications the classify node hands to route in the runs checked
RunClassifications ==
    { Classification("simple", FALSE, 50), Classification("complex", TRUE, 800) }

\* str(e) of the exception caught in the agent node: some exceptions, such
\* as asyncio.TimeoutError(), have an empty message
ErrorTexts == {"", "msg"}

\* the outcomes of model_with_tools.ainvoke: n tool calls in the response
\* (0: none), or an exception with message e
InvokeOutcomes ==
    [ok : {TRUE}, n : {0, ToolCallsPerResponse}, e : {None}]
        \cup [ok : {FALSE}, n : {0}, e : ErrorTexts]

\* truthiness of state["error"] in Python: None and "" are falsy
Truthy(e) == e # None /\ e # ""

\* RetryCountAfterFailure without the increment
RetryCountAfterFailure_Same(rc) == rc

\* retry_count after a failed invocation
RetryCountAfterFailure(rc) == rc + 1

\* ShouldContinue with the retry budget tested with <= in place of <
ShouldContinue_RetryInclusive(err, rc, lm, tcm, mi) ==
    IF Truthy(err)
    THEN (IF rc <= mi \div 2 THEN "retry" ELSE "error")
    ELSE IF lm = "none" THEN "end"
    ELSE IF lm = "ai_tool_calls"
         THEN (IF tcm >= mi THEN "end" ELSE "continue")
         ELSE "end"

\* ShouldContinue without the limit on tool calls
ShouldContinue_NoLimit(err, rc, lm, tcm, mi) ==
    IF Truthy(err)
    THEN (IF rc < mi \div 2 THEN "retry" ELSE "error")
    ELSE IF lm = "none" THEN "end"
    ELSE IF lm = "ai_tool_calls" THEN "continue"
    ELSE "end"

\* _should_continue(state)
ShouldContinue(err, rc, lm, tcm, mi) ==
    IF Truthy(err)
    THEN (IF rc < mi \div 2 THEN "retry" ELSE "error")
    ELSE IF lm = "none" THEN "end"
    ELSE IF lm = "ai_tool_calls"
         THEN (IF tcm >= mi THEN "end" ELSE "continue")
         ELSE "end"

\* the edges of _build_graph out of the agent node
NextNode(d) ==
    IF d = "continue" THEN "tools"
    ELSE IF d = "retry" THEN "route"
    ELSE "END"

NoPass == [tier |-> None, ids |-> <<>>, passed |-> FALSE]

NoInvocation == [tier |-> None, model |-> None, locked |-> None, ok |-> FALSE, after |-> None]

NoGetModel == [tier |-> None, locked |-> None, outcome |-> None, model |-> None]

NoResult == [error |-> None, messages |-> FALSE]

\* the AgentState of initial_state in run(), and the observations reset
InitialState(fm) ==
    /\ classification' = NoClassification
    /\ model_tier' = None
    /\ retry_count' = 0
    /\ error' = None
    /\ tool_calls_made' = 0
    /\ force_model' = fm
    /\ remote_retry_count' = 0
    /\ last_message' = "none"
    /\ decision' = None
    /\ route_relock' = "none"
    /\ invoked' = NoInvocation
    /\ last_node' = "none"
    /\ episode_ids' = {}
    /\ episode' = "none"

\* the uncaught exception of warmup(): a failed sticky write of either pass
WarmupRaises(kl, wl, kr, wr) ==
    \/ PassRaises("local", kl, wl)
    \/ PassRaises("remote", kr, wr)

\* HybridAgent.initialize(): warmup, then the graph is built
Initialize ==
    /\ pc \in {"idle", "END"}
    /\ ~graph
    /\ \E kl \in PassOutcomes("local"), kr \in PassOutcomes("remote"),
          wl \in {"ok", "raises"}, wr \in {"ok", "raises"} :
          /\ warmup(kl, wl, kr)
          /\ graph' = ~WarmupRaises(kl, wl, kr, wr)
    /\ UNCHANGED <<local_model, current_local_model, current_remote_model, gm, unlock_call, pc>>
    /\ UNCHANGED <<config_vars, state_vars, obs_run_vars, router_vars, memory_vars, ext_vars>>

\* HybridAgent.run(query, force_model) up to the start of the graph: the
\* lazy initialize() runs outside the try block, so its exception leaves run()
run_start ==
    /\ pc \in {"idle", "END"}
    /\ \E fm \in {None, "local", "remote"} :
          IF graph
          THEN /\ InitialState(fm)
               /\ pc' = "classify"
               /\ run_outcome' = "none"
               /\ result' = NoResult
               /\ probed' = NoPass
               /\ UNCHANGED <<lock_vars, graph>>
          ELSE \E kl \in PassOutcomes("local"), kr \in PassOutcomes("remote"),
                  wl \in {"ok", "raises"}, wr \in {"ok", "raises"} :
                  /\ warmup(kl, wl, kr)
                  /\ UNCHANGED <<local_model, current_local_model, current_remote_model>>
                  /\ InitialState(fm)
                  /\ result' = NoResult
                  /\ IF WarmupRaises(kl, wl, kr, wr)
                     THEN /\ graph' = FALSE
                          /\ pc' = "idle"
                          /\ run_outcome' = "raised"
                     ELSE /\ graph' = TRUE
                          /\ pc' = "classify"
                          /\ run_outcome' = "none"
    /\ UNCHANGED <<config_vars, gm, unlock_call, router_vars, memory_vars, relockers, cls_query,
                   cls_result, store_vars>>

\* the start of a run whose messages are not followed
StartRun == run_start /\ UNCHANGED channel_vars

\* the queries of the runs checked: a short greeting, and a long query
RunQueries ==
    { Query(9, TRUE, FALSE, FALSE, FALSE, FALSE), Query(51, FALSE, FALSE, FALSE, TRUE, TRUE) }

\* _classify_node: the classifier's answer or the heuristic fallback
classify_node ==
    /\ pc = "classify"
    /\ \E q \in RunQueries, outcome \in ClassifierOutcomes, answer \in RunClassifications :
          /\ classification' = classify_task(q, outcome, answer)
          /\ cls_query' = q
          /\ cls_result' = [path |-> outcome, classification |-> classification']
    /\ pc' = "route"
    /\ last_node' = "classify"
    /\ UNCHANGED <<model_tier, retry_count, error, tool_calls_made, force_model,
                   remote_retry_count, last_message>>
    /\ UNCHANGED <<decision, route_relock, invoked, episode_ids, episode, run_outcome, result>>
    /\ UNCHANGED <<lock_vars, config_vars, obs_lock_vars, graph, router_vars, memory_vars,
                   relockers, store_vars>>

\* the classify node in a run whose messages are not followed
ClassifyNode == classify_node /\ UNCHANGED channel_vars

\* RouteRetryRemote with <= for <
RouteRetryRemote_OffByOne ==
    retry_count > 0 /\ model_tier = "remote" /\ remote_retry_count <= MaxRemoteRetries

\* the branches of _route_node: the retry on remote, the fallback to local
\* after the remote alternatives, the escalation from local
RouteRetryRemote ==
    retry_count > 0 /\ model_tier = "remote" /\ remote_retry_count < MaxRemoteRetries

RouteFallbackLocal == retry_count > 0 /\ model_tier = "remote" /\ ~RouteRetryRemote

RouteEscalate == retry_count > 0 /\ model_tier # "remote"

\* the tier the route node selects
RouteTier ==
    IF RouteRetryRemote THEN "remote"
    ELSE IF RouteFallbackLocal THEN "local"
    ELSE IF RouteEscalate THEN should_escalate(model_tier, is_remote_available)
    ELSE Route(classification, 0, force_model, cfg_force_model,
               is_local_available, is_remote_available, prefer_local)

\* the route node calls relock_model for the tier it selects
RouteRelocks ==
    IF RouteRetryRemote THEN TRUE
    ELSE IF RouteFallbackLocal THEN locked_local_model = None
    ELSE IF RouteEscalate THEN RouteTier = "remote" /\ locked_remote_model = None
    ELSE get_locked_model(RouteTier) = None

\* _route_node; an exception of relock_model (the sticky write) leaves the
\* graph and is caught by run(), which returns initial_state with the error
route_node ==
    /\ pc = "route"
    /\ LET tier == RouteTier IN
       IF RouteRelocks
       THEN \E k \in PassOutcomes(tier), w \in {"ok", "raises"} :
               /\ relock_model(tier, k)
               /\ IF PassRaises(tier, k, w)
                  THEN /\ pc' = "END"
                       /\ run_outcome' = "returned"
                       /\ result' = [error |-> "msg", messages |-> TRUE]
                       /\ UNCHANGED <<model_tier, remote_retry_count, route_relock,
                                      episode_ids, episode>>
                  ELSE /\ pc' = "agent"
                       /\ model_tier' = tier
                       /\ remote_retry_count' =
                             IF RouteRetryRemote THEN remote_retry_count + 1
                             ELSE remote_retry_count
                       /\ route_relock' =
                             IF LockedAfter(tier) # None THEN "locked" ELSE "failed"
                       /\ episode_ids' =
                             IF RouteRetryRemote /\ episode = "open" /\ locked_remote_model' # None
                             THEN episode_ids \cup {locked_remote_model'}
                             ELSE episode_ids
                       /\ episode' = IF RouteFallbackLocal THEN "closed" ELSE episode
                       /\ UNCHANGED <<run_outcome, result>>
       ELSE /\ pc' = "agent"
            /\ model_tier' = tier
            /\ route_relock' = "none"
            /\ episode' = IF RouteFallbackLocal THEN "closed" ELSE episode
            /\ UNCHANGED <<remote_retry_count, episode_ids, run_outcome, result>>
            /\ UNCHANGED <<locked_local_model, locked_remote_model, cfg_remote_model,
                           remote_model, last_successful_local_model,
                           last_successful_remote_model, probed>>
    /\ UNCHANGED <<local_model, current_local_model, current_remote_model, gm, unlock_call>>
    /\ UNCHANGED <<classification, retry_count, error, tool_calls_made, force_model,
                   last_message>>
    /\ last_node' = "route"
    /\ cls_query' = NoQuery
    /\ cls_result' = NotClassified
    /\ UNCHANGED <<decision, invoked, config_vars, graph, router_vars, memory_vars,
                   relockers, store_vars>>

\* the route node in a run whose messages are not followed
RouteNode == route_node /\ UNCHANGED channel_vars

\* the run ends: the final state is the value run() returns
Finish(d, err, lm) ==
    IF NextNode(d) = "END"
    THEN /\ run_outcome' = "returned"
         /\ result' = [error |-> err, messages |-> TRUE]
    ELSE UNCHANGED <<run_outcome, result>>

\* _agent_node followed by the conditional edge _should_continue
agent_node ==
    /\ pc = "agent"
    /\ get_model(model_tier)
    /\ \E o \in InvokeOutcomes :
          LET raised == get_model_raises(model_tier)
              ok == ~raised /\ o.ok
              err == IF ok THEN None ELSE IF raised THEN "msg" ELSE o.e
              rc == IF ok THEN retry_count ELSE RetryCountAfterFailure(retry_count)
              tcm == IF ok THEN tool_calls_made + o.n ELSE tool_calls_made
              lm == IF ok THEN (IF o.n > 0 THEN "ai_tool_calls" ELSE "ai") ELSE last_message
              d == ShouldContinue(err, rc, lm, tcm, max_iterations)
              model == IF raised THEN None ELSE get_model_returns(model_tier)
          IN
          /\ (raised => o = [ok |-> FALSE, n |-> 0, e |-> "msg"])
          /\ error' = err
          /\ retry_count' = rc
          /\ tool_calls_made' = tcm
          /\ last_message' = lm
          /\ decision' = d
          /\ pc' = NextNode(d)
          /\ Finish(d, err, lm)
          /\ invoked' = [tier |-> model_tier, model |-> model,
                         locked |-> get_locked_model(model_tier), ok |-> ok,
                         after |-> last_node]
          /\ IF ok THEN UNCHANGED <<locked_local_model, locked_remote_model>>
             ELSE unlock_model(model_tier)
          /\ last_node' = "agent"
          /\ episode' =
                IF ~ok /\ model_tier = "remote" /\ episode = "none" THEN "open" ELSE episode
          /\ episode_ids' =
                IF model_tier = "remote" /\ episode = "open" /\ ~raised
                THEN episode_ids \cup {model} ELSE episode_ids
    /\ UNCHANGED <<last_successful_local_model, last_successful_remote_model, obs_lock_vars>>
    /\ UNCHANGED <<classification, model_tier, force_model, remote_retry_count, route_relock>>
    /\ UNCHANGED <<config_vars, graph, router_vars, memory_vars, relockers, cls_query,
                   cls_result, store_vars>>

\* the agent node in a run whose messages are not followed
AgentNode == agent_node /\ UNCHANGED channel_vars

\* the tools node (ToolNode): the tool results are appended; back to agent
tools_node ==
    /\ pc = "tools"
    /\ last_message' = "tool"
    /\ pc' = "agent"
    /\ last_node' = "tools"
    /\ UNCHANGED <<classification, model_tier, retry_count, error, tool_calls_made,
                   force_model, remote_retry_count>>
    /\ UNCHANGED <<decision, route_relock, invoked, episode_ids, episode, run_outcome, result>>
    /\ UNCHANGED <<lock_vars, config_vars, obs_lock_vars, graph, router_vars, memory_vars,
                   relockers, cls_query, cls_result, store_vars>>

\* the tools node in a run whose messages are not followed
ToolsNode == tools_node /\ UNCHANGED channel_vars

\* ------------------------------------------------------------------------
\* The process: one run at a time, run after run
\* ------------------------------------------------------------------------

\* the run and its observations before the first run
InitRun ==
    /\ probed = NoPass
    /\ gm = NoGetModel
    /\ unlock_call = None
    /\ graph = FALSE
    /\ pc = "idle"
    /\ classification = NoClassification
    /\ model_tier = None
    /\ retry_count = 0
    /\ error = None
    /\ tool_calls_made = 0
    /\ force_model = None
    /\ remote_retry_count = 0
    /\ last_message = "none"
    /\ decision = None
    /\ route_relock = "none"
    /\ invoked = NoInvocation
    /\ last_node = "none"
    /\ episode_ids = {}
    /\ episode = "none"
    /\ run_outcome = "none"
    /\ result = NoResult

\* HybridLLMSystem.__init__ and _setup_models: each tier configured or not,
\* nothing locked
InitSystem ==
    /\ local_model \in {None, DefaultLocalModel}
    /\ current_local_model = local_model
    /\ remote_model \in {None, DefaultRemoteModel}
    /\ cfg_remote_model = DefaultRemoteModel
    /\ current_remote_model = None
    /\ locked_local_model = None
    /\ locked_remote_model = None

NoRouteCall == [c |-> NoClassification, context_tokens |-> 0,
                force_model |-> None]

NoPreviousRoute == [same_args |-> FALSE, result |-> None]

NoEscalation == [current_tier |-> None, error |-> None, result |-> None]

\* callers of relock_model that may run at overlapping times
Callers == {"c1", "c2"}

NoRelock == [pc |-> "idle", tier |-> None, probes |-> <<>>, idx |-> 0, probed |-> <<>>,
             overlapped |-> {}]

InitRelockIdle == relockers = [c \in Callers |-> NoRelock]

InitClassifierIdle ==
    /\ cls_query = NoQuery
    /\ cls_result = NotClassified

\* the sticky value of each tier, as get_last_successful_model reads it
StickyValues ==
    [local |-> last_successful_local_model, remote |-> last_successful_remote_model]

NoSwitch == [model_id |-> None, outcome |-> "none", calls |-> 0]

NoStoreCall == [op |-> "none", tier |-> None, value |-> None, raised |-> FALSE,
                last_set |-> [local |-> "unset", remote |-> "unset"]]

\* _load_yaml: the configuration in memory is what the file holds
InitStoreIdle ==
    /\ store_call = NoStoreCall
    /\ config_file = StickyValues
    /\ switch_call = NoSwitch

NoAgentIO == [done |-> FALSE, ok |-> FALSE, before |-> <<>>, invoked_with |-> <<>>,
              response |-> 0, tool_calls |-> 0]

InitChannelIdle ==
    /\ channel_messages = <<>>
    /\ agent_io = NoAgentIO

\* no CLI session yet, no mode chosen in an earlier one
NoCli == [running |-> FALSE, force_model |-> None, fresh |-> FALSE, shown |-> "none",
          reported |-> "none", ran |-> FALSE, run_force_model |-> None]

InitCliIdle ==
    /\ cli = NoCli
    /\ user_force_model = None
    /\ file_user_force_model = "absent"

\* the parts of the process that are called on their own are idle
InitExtIdle ==
    /\ InitRelockIdle
    /\ InitClassifierIdle
    /\ InitStoreIdle
    /\ InitChannelIdle
    /\ InitCliIdle

\* no call of the router on its own yet
InitRouterIdle ==
    /\ route_args = NoRouteCall
    /\ route_result = None
    /\ route_prev = NoPreviousRoute
    /\ escalation = NoEscalation

\* ------------------------------------------------------------------------
\* MemoryManager (src/src/agent/memory.py)
\* ------------------------------------------------------------------------

\* longest message history handed to the memory manager
MaxHistory == 4

\* get_model_limits: the limits of a model that lists none, or is not listed
DefaultContextWindow == 8192

DefaultMaxOutputTokens == 2048

\* config.get('agent.memory.reserve_tokens', 1000): the default
DefaultReserveTokens == 1000

\* config.get('agent.memory.max_messages', 20): the default
DefaultMaxMessages == 20

\* estimate_tokens: words counted for each tool call of a message
ToolCallWords == 50

\* llm.local.available_models with their limits: the first model has a 4K
\* context window, the second lists no limits
LocalModelConfigs ==
    <<[id |-> LocalModels[1], context_window |-> 4096, max_output_tokens |-> 1024],
      [id |-> LocalModels[2], context_window |-> DefaultContextWindow,
       max_output_tokens |-> DefaultMaxOutputTokens]>>

\* llm.remote.available_models: none of them lists limits
RemoteModelConfigs ==
    [i \in 1..Len(RemoteModels) |->
        [id |-> RemoteModels[i], context_window |-> DefaultContextWindow,
         max_output_tokens |-> DefaultMaxOutputTokens]]

\* get_model_limits(model_id, tier): <<context_window, max_output_tokens>> of
\* the first entry of the tier's list with that id, the defaults when no
\* entry has it
get_model_limits(model_id, tier) ==
    LET models == IF tier = "local" THEN LocalModelConfigs ELSE RemoteModelConfigs
        found == {i \in 1..Len(models) : models[i].id = model_id}
    IN  IF found = {} THEN <<DefaultContextWindow, DefaultMaxOutputTokens>>
        ELSE LET i == CHOOSE j \in found : \A k \in found : j <= k
             IN  <<models[i].context_window, models[i].max_output_tokens>>

\* message contents of the histories
Contents == {"", "hi", "one two three", "four five six"}

\* len(str(content).split())
WordCount(content) ==
    CASE content = "" -> 0
      [] content = "hi" -> 1
      [] content = "one two three" -> 3
      [] content = "four five six" -> 3

\* a message: its class (system, human, ai), its content, the number of its
\* tool calls; two messages are equal when these are equal
Message(type, content, tool_calls) ==
    [type |-> type, content |-> content, tool_calls |-> tool_calls]

\* the messages the histories are made of
MessageKinds ==
    {Message("system", "one two three", 0),
     Message("human", "hi", 0),
     Message("human", "", 0),
     Message("human", "one two three", 0),
     Message("ai", "four five six", 0),
     Message("ai", "", 1)}

RECURSIVE SeqsUpTo(_, _)
\* the sequences over S of length at most n
SeqsUpTo(S, n) ==
    IF n = 0 THEN {<<>>}
    ELSE LET shorter == SeqsUpTo(S, n - 1)
         IN  shorter \cup {Append(h, m) : h \in {x \in shorter : Len(x) = n - 1}, m \in S}

Histories == SeqsUpTo(MessageKinds, MaxHistory)

\* isinstance(msg, SystemMessage)
IsSystem(m) == m.type = "system"

IsConversation(m) == ~IsSystem(m)

\* the words estimate_tokens counts for one message
MessageWords(m) ==
    (IF m.content # "" THEN WordCount(m.content) ELSE 0) + ToolCallWords * m.tool_calls

RECURSIVE TotalWords(_)
TotalWords(messages) ==
    IF messages = <<>> THEN 0
    ELSE MessageWords(Head(messages)) + TotalWords(Tail(messages))

\* estimate_tokens(messages): int(total_words * 1.3)
estimate_tokens(messages) == (13 * TotalWords(messages)) \div 10

Reverse(s) == [i \in 1..Len(s) |-> s[Len(s) + 1 - i]]

RECURSIVE WalkFromMostRecent_SkipsOverflow(_, _)
\* WalkFromMostRecent that goes on past a message that does not fit
WalkFromMostRecent_SkipsOverflow(conversation, remaining_tokens) ==
    IF conversation = <<>> THEN <<>>
    ELSE LET msg == conversation[Len(conversation)]
             msg_tokens == estimate_tokens(<<msg>>)
             older == SubSeq(conversation, 1, Len(conversation) - 1)
         IN  IF msg_tokens <= remaining_tokens
             THEN <<msg>> \o WalkFromMostRecent_SkipsOverflow(older,
                                                              remaining_tokens - msg_tokens)
             ELSE WalkFromMostRecent_SkipsOverflow(older, remaining_tokens)

RECURSIVE WalkFromMostRecent(_, _)
\* the loop of _sliding_window_truncate over conversation_reversed: the
\* messages it inserts, in the order it visits them, until the first one
\* that does not fit remaining_tokens
WalkFromMostRecent(conversation, remaining_tokens) ==
    IF conversation = <<>> THEN <<>>
    ELSE LET msg == conversation[Len(conversation)]
             msg_tokens == estimate_tokens(<<msg>>)
         IN  IF msg_tokens <= remaining_tokens
             THEN <<msg>> \o WalkFromMostRecent(SubSeq(conversation, 1, Len(conversation) - 1),
                                                remaining_tokens - msg_tokens)
             ELSE <<>>

\* _sliding_window_truncate(messages, target_tokens)
sliding_window_truncate(messages, target_tokens) ==
    LET system_msgs == SelectSeq(messages, IsSystem)
        conversation == SelectSeq(messages, IsConversation)
        system_tokens == estimate_tokens(system_msgs)
        walk == WalkFromMostRecent(conversation, target_tokens - system_tokens)
        \* result: each message of the walk is inserted right after the system
        \* messages
        inserted == system_msgs \o Reverse(walk)
        NotInSystemMsgs(m) == m \notin SeqToSet(system_msgs)
    IN  system_msgs \o Reverse(SelectSeq(inserted, NotInSystemMsgs))

\* truncate_messages without the return of a history that fits
truncate_messages_AlwaysSlides(messages, context_window, max_output_tokens) ==
    LET available_tokens == context_window - max_output_tokens - reserve_tokens
    IN  IF messages = <<>> THEN messages
        ELSE IF available_tokens <= 0 THEN SubSeq(messages, 1, 1)
        ELSE sliding_window_truncate(messages, available_tokens)

\* truncate_messages(messages, context_window, max_output_tokens); every
\* value of self.strategy ends in _sliding_window_truncate
truncate_messages(messages, context_window, max_output_tokens) ==
    LET available_tokens == context_window - max_output_tokens - reserve_tokens
    IN  IF messages = <<>> THEN messages
        ELSE IF available_tokens <= 0 THEN SubSeq(messages, 1, 1)
        ELSE IF estimate_tokens(messages) <= available_tokens THEN messages
        ELSE sliding_window_truncate(messages, available_tokens)

\* s[-n:] for n > 0
LastN(s, n) == IF Len(s) <= n THEN s ELSE SubSeq(s, Len(s) - n + 1, Len(s))

\* ApplyMessageLimit that keeps the oldest messages
ApplyMessageLimit_Oldest(messages) ==
    IF max_messages # 0 /\ Len(messages) > max_messages
    THEN SelectSeq(messages, IsSystem)
            \o SubSeq(SelectSeq(messages, IsConversation), 1,
                      IF Len(SelectSeq(messages, IsConversation)) <= max_messages
                      THEN Len(SelectSeq(messages, IsConversation)) ELSE max_messages)
    ELSE messages

\* the message limit of manage_context (max_messages = 0: not configured)
ApplyMessageLimit(messages) ==
    IF max_messages # 0 /\ Len(messages) > max_messages
    THEN SelectSeq(messages, IsSystem) \o LastN(SelectSeq(messages, IsConversation), max_messages)
    ELSE messages

\* manage_context(messages, model_id, tier)
manage_context(messages, model_id, tier) ==
    LET limits == get_model_limits(model_id, tier)
    IN  truncate_messages(ApplyMessageLimit(messages), limits[1], limits[2])

\* the budget truncate_messages computes for a model
AvailableTokens(model_id, tier) ==
    get_model_limits(model_id, tier)[1] - get_model_limits(model_id, tier)[2] - reserve_tokens

NoMemoryCall == [op |-> "none", messages |-> <<>>, model_id |-> None, tier |-> None]

NotApplied == [done |-> FALSE, out |-> <<>>]

\* no call of the memory manager yet; MemoryManager.__init__ with the
\* default configuration
InitMemoryIdle ==
    /\ max_messages = DefaultMaxMessages
    /\ reserve_tokens = DefaultReserveTokens
    /\ mm_call = NoMemoryCall
    /\ mm_result = <<>>
    /\ mm_again = NotApplied

\* agent.memory.max_messages of the configurations checked (0: no limit)
MaxMessagesValues == {0, 2}

\* agent.memory.reserve_tokens of the configurations checked: the default,
\* and values that leave the 4K model a budget of 6 and of 0 tokens
ReserveTokensValues == {DefaultReserveTokens, 3066, 3072}

\* the (model_id, tier) pairs of the calls: a listed local model, and the
\* same id looked up in the remote list, where it is not found
MemoryModels == {<<LocalModels[1], "local">>, <<LocalModels[1], "remote">>}

\* a call of manage_context(messages, model_id, tier)
ManageContext ==
    /\ mm_call.op = "none"
    /\ mm_call' = [mm_call EXCEPT !.op = "manage_context"]
    /\ mm_result' = manage_context(mm_call.messages, mm_call.model_id, mm_call.tier)
    /\ UNCHANGED <<max_messages, reserve_tokens, mm_again>>
    /\ UNCHANGED <<lock_vars, config_vars, obs_lock_vars, state_vars, obs_run_vars,
                   agent_vars, router_vars, ext_vars>>

\* a call of truncate_messages with the limits of the model
TruncateMessages ==
    /\ mm_call.op = "none"
    /\ mm_call' = [mm_call EXCEPT !.op = "truncate_messages"]
    /\ mm_result' = truncate_messages(mm_call.messages,
                                      get_model_limits(mm_call.model_id, mm_call.tier)[1],
                                      get_model_limits(mm_call.model_id, mm_call.tier)[2])
    /\ UNCHANGED <<max_messages, reserve_tokens, mm_again>>
    /\ UNCHANGED <<lock_vars, config_vars, obs_lock_vars, state_vars, obs_run_vars,
                   agent_vars, router_vars, ext_vars>>

\* manage_context called on the list the previous manage_context returned
ManageContextAgain ==
    /\ mm_call.op = "manage_context"
    /\ ~mm_again.done
    /\ mm_again' = [done |-> TRUE,
                    out |-> manage_context(mm_result, mm_call.model_id, mm_call.tier)]
    /\ UNCHANGED <<max_messages, reserve_tokens, mm_call, mm_result>>
    /\ UNCHANGED <<lock_vars, config_vars, obs_lock_vars, state_vars, obs_run_vars,
                   agent_vars, router_vars, ext_vars>>

\* a process with both tiers configured, the memory manager's configuration
\* and the inputs of its calls
InitMemory ==
    /\ InitSystem
    /\ is_local_available /\ is_remote_available
    /\ InitRun
    /\ sticky_model = TRUE
    /\ last_successful_local_model = None
    /\ last_successful_remote_model = None
    /\ prefer_local = TRUE
    /\ cfg_force_model = None
    /\ max_iterations = DefaultMaxIterations
    /\ InitRouterIdle
    /\ InitExtIdle
    /\ max_messages \in MaxMessagesValues
    /\ reserve_tokens \in ReserveTokensValues
    /\ mm_call \in [op : {"none"}, messages : Histories,
                    model_id : {mt[1] : mt \in MemoryModels},
                    tier : {mt[2] : mt \in MemoryModels}]
    /\ <<mm_call.model_id, mm_call.tier>> \in MemoryModels
    /\ mm_result = <<>>
    /\ mm_again = NotApplied

NextMemory == ManageContext \/ TruncateMessages \/ ManageContextAgain

SpecMemory == InitMemory /\ [][NextMemory]_vars

\* ------------------------------------------------------------------------
\* HybridAgent: the specification of the runs
\* ------------------------------------------------------------------------

Init ==
    /\ InitSystem
    /\ InitRun
    /\ sticky_model \in BOOLEAN
    /\ last_successful_local_model = None
    /\ last_successful_remote_model = None
    /\ prefer_local = TRUE
    /\ cfg_force_model = None
    /\ max_iterations \in MaxIterationsValues
    /\ InitRouterIdle
    /\ InitMemoryIdle
    /\ InitExtIdle

RunStep == ClassifyNode \/ RouteNode \/ AgentNode \/ ToolsNode

Next == Initialize \/ StartRun \/ RunStep

Spec == Init /\ [][Next]_vars

\* the runs of a process without sticky models; the event loop runs the
\* next node of a started run
InitFair == Init /\ ~sticky_model

FairSpec == InitFair /\ [][Next]_vars /\ WF_vars(RunStep)

\* ------------------------------------------------------------------------
\* The lock manager called on its own, in any order
\* ------------------------------------------------------------------------

\* warmup()
Warmup ==
    /\ \E kl \in PassOutcomes("local"), kr \in PassOutcomes("remote"),
          wl \in {"ok", "raises"} : warmup(kl, wl, kr)
    /\ gm' = NoGetModel
    /\ unlock_call' = None
    /\ UNCHANGED <<local_model, current_local_model, current_remote_model>>
    /\ UNCHANGED <<config_vars, state_vars, obs_run_vars, agent_vars, router_vars, memory_vars, ext_vars>>

\* unlock_model(tier), with the tier of the call observed in unlock_call
UnlockModel ==
    /\ \E tier \in Tiers :
          /\ unlock_model(tier)
          /\ unlock_call' = tier
    /\ probed' = NoPass
    /\ gm' = NoGetModel
    /\ UNCHANGED <<local_model, remote_model, current_local_model, current_remote_model,
                   cfg_remote_model, last_successful_local_model,
                   last_successful_remote_model>>
    /\ UNCHANGED <<config_vars, state_vars, obs_run_vars, agent_vars, router_vars, memory_vars, ext_vars>>

\* relock_model(tier)
RelockModel ==
    /\ \E tier \in Tiers : \E k \in PassOutcomes(tier) : relock_model(tier, k)
    /\ gm' = NoGetModel
    /\ unlock_call' = None
    /\ UNCHANGED <<local_model, current_local_model, current_remote_model>>
    /\ UNCHANGED <<config_vars, state_vars, obs_run_vars, agent_vars, router_vars, memory_vars, ext_vars>>

\* get_model(tier), with the outcome of the call observed in gm
GetModel ==
    /\ \E tier \in Tiers :
          /\ get_model(tier)
          /\ gm' = [tier |-> tier, locked |-> get_locked_model(tier),
                    outcome |-> IF get_model_raises(tier) THEN "error" ELSE "model",
                    model |-> IF get_model_raises(tier) THEN None
                              ELSE get_model_returns(tier)]
    /\ probed' = NoPass
    /\ unlock_call' = None
    /\ UNCHANGED <<locked_local_model, locked_remote_model, last_successful_local_model,
                   last_successful_remote_model>>
    /\ UNCHANGED <<config_vars, state_vars, obs_run_vars, agent_vars, router_vars, memory_vars, ext_vars>>

\* the ids of the manual switches: two available ones and one that is not
SwitchIds == {RemoteModels[1], RemoteModels[2], StaleModel}

\* switch_remote_model(model_id) called by the user (service.py), with the
\* outcome of the call observed in switch_call
SwitchRemoteModel ==
    /\ \E model_id \in SwitchIds :
          /\ switch_remote_model(model_id)
          /\ switch_call' = [model_id |-> model_id,
                             outcome |-> IF switch_remote_model_raises(model_id)
                                         THEN "error" ELSE "switched",
                             calls |-> 1 - switch_call.calls]
    /\ probed' = NoPass
    /\ gm' = NoGetModel
    /\ unlock_call' = None
    /\ UNCHANGED <<local_model, current_local_model, current_remote_model,
                   locked_local_model, locked_remote_model, last_successful_local_model,
                   last_successful_remote_model>>
    /\ UNCHANGED <<config_vars, state_vars, obs_run_vars, agent_vars, router_vars,
                   memory_vars, relockers, cls_query, cls_result, store_call, config_file,
                   cli_vars, channel_vars>>

\* the sticky store may hold a value of an earlier session, also one that
\* is no longer a configured candidate
InitLock ==
    /\ InitSystem
    /\ InitRun
    /\ sticky_model \in BOOLEAN
    /\ last_successful_local_model \in {None, StaleModel}
    /\ last_successful_remote_model \in {None, StaleModel}
    /\ prefer_local = TRUE
    /\ cfg_force_model = None
    /\ max_iterations = DefaultMaxIterations
    /\ InitRouterIdle
    /\ InitMemoryIdle
    /\ InitExtIdle

NextLock == Warmup \/ UnlockModel \/ RelockModel \/ GetModel

SpecLock == InitLock /\ [][NextLock]_vars

\* ------------------------------------------------------------------------
\* unlock_model and relock_model called on their own, in any order
\* ------------------------------------------------------------------------

NextTier == UnlockModel \/ RelockModel

SpecTier == InitLock /\ [][NextTier]_vars

\* ------------------------------------------------------------------------
\* The lock manager and the manual switch of the remote model, in any order
\* ------------------------------------------------------------------------

\* a process without sticky models
InitSwitch ==
    /\ InitSystem
    /\ InitRun
    /\ sticky_model = FALSE
    /\ last_successful_local_model = None
    /\ last_successful_remote_model = None
    /\ prefer_local = TRUE
    /\ cfg_force_model = None
    /\ max_iterations = DefaultMaxIterations
    /\ InitRouterIdle
    /\ InitMemoryIdle
    /\ InitExtIdle

NextSwitch == Warmup \/ UnlockModel \/ RelockModel \/ GetModel \/ SwitchRemoteModel

SpecSwitch == InitSwitch /\ [][NextSwitch]_vars

\* ------------------------------------------------------------------------
\* Router.route called on its own
\* ------------------------------------------------------------------------

\* estimated_tokens of the classifications routed (50 and 800 are values
\* of the heuristic)
EstimatedTokens == {50, 800, 1001}

\* context_tokens of the calls
ContextTokens == {0, 950}

ForceValues == {None, "local", "remote"}

RouteCalls ==
    [c : {Classification(cx, rt, et) : cx \in Complexities, rt \in BOOLEAN,
                                        et \in EstimatedTokens},
     context_tokens : ContextTokens, force_model : ForceValues]

\* one call of Router.route
RouterCall ==
    /\ \E a \in RouteCalls :
          /\ route_args' = a
          /\ route_result' = Route(a.c, a.context_tokens, a.force_model, cfg_force_model,
                                   is_local_available, is_remote_available, prefer_local)
          /\ route_prev' = [same_args |-> (route_result # None /\ route_args = a),
                            result |-> route_result]
    /\ UNCHANGED <<lock_vars, config_vars, obs_lock_vars, state_vars, obs_run_vars,
                   agent_vars, escalation, memory_vars, ext_vars>>

\* ------------------------------------------------------------------------
\* Router.should_escalate called on its own
\* ------------------------------------------------------------------------

\* one call of Router.should_escalate(current_tier, error)
EscalateCall ==
    /\ \E t \in Tiers, e \in ErrorTexts :
          escalation' = [current_tier |-> t, error |-> e,
                         result |-> should_escalate(t, is_remote_available)]
    /\ UNCHANGED <<lock_vars, config_vars, obs_lock_vars, state_vars, obs_run_vars,
                   agent_vars, route_args, route_result, route_prev, memory_vars, ext_vars>>

InitRouter ==
    /\ InitSystem
    /\ InitRun
    /\ sticky_model = TRUE
    /\ last_successful_local_model = None
    /\ last_successful_remote_model = None
    /\ prefer_local \in BOOLEAN
    /\ cfg_force_model \in ForceValues
    /\ max_iterations = DefaultMaxIterations
    /\ InitRouterIdle
    /\ InitMemoryIdle
    /\ InitExtIdle

NextRouter == RouterCall \/ EscalateCall

SpecRouter == InitRouter /\ [][NextRouter]_vars

\* ------------------------------------------------------------------------
\* relock_model called by callers that run at overlapping times; a pass
\* gives up control at each await of a probe's ainvoke
\* ------------------------------------------------------------------------

\* the first probe from position i on that reaches its ainvoke: a remote id
\* that switch_remote_model refuses fails before any await
NextAwait(tier, probes, i) ==
    LET reaching == {j \in i..Len(probes) : ProbeCanPass(tier, probes[j])}
    IN  IF reaching = {} THEN Len(probes) + 1
        ELSE CHOOSE j \in reaching : \A k \in reaching : j <= k

\* _test_remote_model switches config and instance to the id it probes
SwitchForProbe(tier, id) ==
    IF tier = "remote"
    THEN /\ cfg_remote_model' = id
         /\ remote_model' = id
    ELSE UNCHANGED <<cfg_remote_model, remote_model>>

\* the callers whose pass on the tier is under way
ActiveOn(tier) == {d \in Callers : relockers[d].pc = "awaiting" /\ relockers[d].tier = tier}

\* the records of the other callers when caller c starts a pass on tier
NoteOverlap(c, tier) ==
    [d \in Callers \ {c} |->
        IF d \in ActiveOn(tier)
        THEN [relockers[d] EXCEPT !.overlapped = @ \cup {c}]
        ELSE [relockers[d] EXCEPT !.overlapped = @ \ {c}]]

\* caller c calls relock_model(tier) and runs up to the await of its first
\* probe (or to the end, when the tier is not configured)
RelockBegin(c) ==
    /\ relockers[c].pc \in {"idle", "done"}
    /\ \E tier \in Tiers :
          LET probes == ProbeSeq(tier)
              j == NextAwait(tier, probes, 1)
              others == NoteOverlap(c, tier)
              mine == [pc |-> IF j > Len(probes) THEN "done" ELSE "awaiting",
                       tier |-> tier, probes |-> probes, idx |-> j,
                       probed |-> SubSeq(probes, 1, IF j > Len(probes) THEN Len(probes) ELSE j),
                       overlapped |-> ActiveOn(tier) \ {c}]
          IN  /\ relockers' = [d \in Callers |-> IF d = c THEN mine ELSE others[d]]
              /\ IF j > Len(probes) THEN UNCHANGED <<cfg_remote_model, remote_model>>
                 ELSE SwitchForProbe(tier, probes[j])
    /\ UNCHANGED <<local_model, current_local_model, current_remote_model, locked_local_model,
                   locked_remote_model, last_successful_local_model,
                   last_successful_remote_model>>
    /\ UNCHANGED <<config_vars, obs_lock_vars, state_vars, obs_run_vars, agent_vars,
                   router_vars, memory_vars, cls_query, cls_result, store_vars,
                   channel_messages, agent_io>>

\* the probe caller c awaits returns: with a non-empty response the pass
\* locks the model (and stores it, unless it is the sticky probe) and ends;
\* otherwise the pass goes on to the await of its next probe, or ends
RelockProbeReturns(c) ==
    /\ relockers[c].pc = "awaiting"
    /\ LET r == relockers[c]
           id == r.probes[r.idx]
           sticky_probe == r.idx = 1 /\ Len(r.probes) > Len(available_models(r.tier))
           j == NextAwait(r.tier, r.probes, r.idx + 1)
       IN  \E ok \in BOOLEAN :
             IF ok
             THEN /\ relockers' = [relockers EXCEPT ![c].pc = "done"]
                  /\ IF r.tier = "local"
                     THEN /\ locked_local_model' = id
                          /\ last_successful_local_model' =
                                IF sticky_model /\ ~sticky_probe THEN id
                                ELSE last_successful_local_model
                          /\ UNCHANGED <<locked_remote_model, last_successful_remote_model>>
                     ELSE /\ locked_remote_model' = id
                          /\ last_successful_remote_model' =
                                IF sticky_model /\ ~sticky_probe THEN id
                                ELSE last_successful_remote_model
                          /\ UNCHANGED <<locked_local_model, last_successful_local_model>>
                  /\ UNCHANGED <<cfg_remote_model, remote_model>>
             ELSE /\ relockers' =
                        [relockers EXCEPT
                           ![c].pc = IF j > Len(r.probes) THEN "done" ELSE "awaiting",
                           ![c].idx = j,
                           ![c].probed =
                               r.probed \o SubSeq(r.probes, r.idx + 1,
                                                  IF j > Len(r.probes) THEN Len(r.probes) ELSE j)]
                  /\ IF j > Len(r.probes) THEN UNCHANGED <<cfg_remote_model, remote_model>>
                     ELSE SwitchForProbe(r.tier, r.probes[j])
                  /\ UNCHANGED <<locked_local_model, locked_remote_model,
                                 last_successful_local_model, last_successful_remote_model>>
    /\ UNCHANGED <<local_model, current_local_model, current_remote_model>>
    /\ UNCHANGED <<config_vars, obs_lock_vars, state_vars, obs_run_vars, agent_vars,
                   router_vars, memory_vars, cls_query, cls_result, store_vars,
                   channel_messages, agent_io>>

\* a process with sticky on or off and possibly a stale stored value
InitRelock ==
    /\ InitSystem
    /\ InitRun
    /\ sticky_model \in BOOLEAN
    /\ last_successful_local_model \in {None, StaleModel}
    /\ last_successful_remote_model \in {None, StaleModel}
    /\ prefer_local = TRUE
    /\ cfg_force_model = None
    /\ max_iterations = DefaultMaxIterations
    /\ InitRouterIdle
    /\ InitMemoryIdle
    /\ InitExtIdle

NextRelock == \E c \in Callers : RelockBegin(c) \/ RelockProbeReturns(c)

SpecRelock == InitRelock /\ [][NextRelock]_vars

\* ------------------------------------------------------------------------
\* The classifier called on its own
\* ------------------------------------------------------------------------

\* word counts on both sides of the two length tests (length < 10, length > 50)
QueryWords == {9, 10, 50, 51}

Queries ==
    { Query(w, g, c, a, t, au) :
        w \in QueryWords, g \in BOOLEAN, c \in BOOLEAN, a \in BOOLEAN, t \in BOOLEAN,
        au \in BOOLEAN }

\* Router._simple_classify(query) called directly
SimpleClassify ==
    /\ cls_result.path = "none"
    /\ cls_result' = [path |-> "heuristic", classification |-> simple_classify(cls_query)]
    /\ UNCHANGED <<lock_vars, config_vars, obs_lock_vars, state_vars, obs_run_vars,
                   agent_vars, router_vars, memory_vars, relockers, cls_query, store_vars,
                   channel_vars>>

\* await Router.classify_task(query)
ClassifyTask ==
    /\ cls_result.path = "none"
    /\ \E outcome \in ClassifierOutcomes, answer \in RunClassifications :
          cls_result' = [path |-> outcome,
                         classification |-> classify_task(cls_query, outcome, answer)]
    /\ UNCHANGED <<lock_vars, config_vars, obs_lock_vars, state_vars, obs_run_vars,
                   agent_vars, router_vars, memory_vars, relockers, cls_query, store_vars,
                   channel_vars>>

InitClassify ==
    /\ InitSystem
    /\ local_model # None
    /\ remote_model # None
    /\ InitRun
    /\ sticky_model = TRUE
    /\ last_successful_local_model = None
    /\ last_successful_remote_model = None
    /\ prefer_local = TRUE
    /\ cfg_force_model = None
    /\ max_iterations = DefaultMaxIterations
    /\ InitRouterIdle
    /\ InitMemoryIdle
    /\ InitRelockIdle
    /\ cls_query \in Queries
    /\ cls_result = NotClassified
    /\ InitStoreIdle
    /\ InitChannelIdle
    /\ InitCliIdle

NextClassify == SimpleClassify \/ ClassifyTask

SpecClassify == InitClassify /\ [][NextClassify]_vars

\* ------------------------------------------------------------------------
\* The sticky store called on its own (src/src/utils/config.py)
\* ------------------------------------------------------------------------

\* the values set: None (reset) and two ids per tier
StoredIds(tier) ==
    IF tier = "local" THEN {None, LocalModels[1], LocalModels[2]}
    ELSE {None, RemoteModels[1], RemoteModels[2]}

\* the writes of config.yaml succeed or raise (OSError)
WriteOutcomes == {"ok", "raises"}

\* set_last_successful_model with one key for both tiers
StickyAfterSet_OneKey(tier, model_id) ==
    [local |-> model_id, remote |-> model_id]

\* self.config['llm']['routing'][f'last_successful_{tier}_model'] = model_id
StickyAfterSet(tier, model_id) ==
    [StickyValues EXCEPT ![tier] = model_id]

\* config.set_last_successful_model(tier, model_id): the value in memory is
\* set, then the whole configuration is written to config.yaml
SetLastSuccessful(tier, model_id, w) ==
    /\ last_successful_local_model' = StickyAfterSet(tier, model_id).local
    /\ last_successful_remote_model' = StickyAfterSet(tier, model_id).remote
    /\ config_file' = IF w = "ok" THEN StickyAfterSet(tier, model_id) ELSE config_file
    /\ store_call' = [op |-> "set", tier |-> tier, value |-> model_id,
                      raised |-> (w = "raises"),
                      last_set |-> [store_call.last_set EXCEPT ![tier] = model_id]]
    /\ UNCHANGED <<locked_local_model, locked_remote_model, local_model, remote_model,
                   current_local_model, current_remote_model, cfg_remote_model,
                   sticky_model, prefer_local, cfg_force_model, max_iterations>>
    /\ UNCHANGED <<obs_lock_vars, state_vars, obs_run_vars, agent_vars, router_vars,
                   memory_vars, relockers, cls_query, cls_result, channel_messages,
                   agent_io, switch_call, cli_vars>>

\* config.get_last_successful_model(tier)
GetLastSuccessful(tier) ==
    /\ store_call' = [store_call EXCEPT !.op = "get", !.tier = tier,
                                        !.value = get_last_successful_model(tier),
                                        !.raised = FALSE]
    /\ UNCHANGED <<lock_vars, config_vars, obs_lock_vars, state_vars, obs_run_vars,
                   agent_vars, router_vars, memory_vars, relockers, cls_query, cls_result,
                   config_file, channel_messages, agent_io, switch_call, cli_vars>>

\* switch_remote_model to the configured id: config.set_remote_model writes
\* the configuration in memory to config.yaml and, when the write succeeds,
\* reload_remote_model calls config.reload(), which reads the file again
SwitchAndReload(w) ==
    /\ config_file' = IF w = "ok" THEN StickyValues ELSE config_file
    /\ last_successful_local_model' =
          IF w = "ok" THEN config_file'.local ELSE last_successful_local_model
    /\ last_successful_remote_model' =
          IF w = "ok" THEN config_file'.remote ELSE last_successful_remote_model
    /\ store_call' = [store_call EXCEPT !.op = "reload", !.tier = None, !.value = None,
                                        !.raised = (w = "raises")]
    /\ UNCHANGED <<locked_local_model, locked_remote_model, local_model, remote_model,
                   current_local_model, current_remote_model, cfg_remote_model,
                   sticky_model, prefer_local, cfg_force_model, max_iterations>>
    /\ UNCHANGED <<obs_lock_vars, state_vars, obs_run_vars, agent_vars, router_vars,
                   memory_vars, relockers, cls_query, cls_result, channel_messages,
                   agent_io, switch_call, cli_vars>>

InitSticky ==
    /\ InitSystem
    /\ local_model # None
    /\ remote_model # None
    /\ InitRun
    /\ sticky_model = TRUE
    /\ last_successful_local_model \in {None, StaleModel}
    /\ last_successful_remote_model \in {None, StaleModel}
    /\ prefer_local = TRUE
    /\ cfg_force_model = None
    /\ max_iterations = DefaultMaxIterations
    /\ InitRouterIdle
    /\ InitMemoryIdle
    /\ InitExtIdle

NextSticky ==
    \/ \E tier \in Tiers : \E model_id \in StoredIds(tier), w \in WriteOutcomes :
          SetLastSuccessful(tier, model_id, w)
    \/ \E tier \in Tiers : GetLastSuccessful(tier)
    \/ \E w \in WriteOutcomes : SwitchAndReload(w)

SpecSticky == InitSticky /\ [][NextSticky]_vars

\* ------------------------------------------------------------------------
\* The messages of a run: the channel state["messages"] of the graph, which
\* merges what each node returns with operator.add
\* ------------------------------------------------------------------------

\* a message of a run; id tells the messages created in a run apart
RunMessage(type, content, tool_calls, id) ==
    [type |-> type, content |-> content, tool_calls |-> tool_calls, id |-> id]

\* the number of messages created so far in the run
Created(messages) ==
    LET ids == {messages[i].id : i \in 1..Len(messages)}
    IN  IF ids = {} THEN 0 ELSE CHOOSE k \in ids : \A j \in ids : j <= k

\* messages: Annotated[Sequence[BaseMessage], add]: the channel after a node
\* returned the value update for it
add(channel, update) == channel \o update

\* messages = state.get("messages", []), or the query as a HumanMessage
AgentMessages ==
    IF channel_messages = <<>> THEN <<RunMessage("human", "hi", 0, 1)>>
    ELSE channel_messages

\* model_id in _agent_node, read after get_model
AgentModelId ==
    IF model_tier = "remote"
    THEN (IF locked_remote_model # None THEN locked_remote_model ELSE current_remote_model')
    ELSE (IF locked_local_model # None THEN locked_local_model ELSE current_local_model')

\* the history the model is invoked with
ManagedMessages ==
    IF AgentModelId # None THEN manage_context(AgentMessages, AgentModelId, model_tier)
    ELSE AgentMessages

\* the response of the model, with n tool calls
Response(n) ==
    RunMessage("ai", IF n > 0 THEN "" ELSE "four five six", n, Created(AgentMessages) + 1)

\* the ToolMessages that ToolNode returns, one for each tool call of the
\* last message
ToolMessages ==
    LET last == channel_messages[Len(channel_messages)]
    IN  [i \in 1..last.tool_calls |->
            RunMessage("tool", "hi", 0, Created(channel_messages) + i)]

\* run() starts the graph with messages: []
ChannelStart ==
    /\ run_start
    /\ channel_messages' = <<>>
    /\ agent_io' = NoAgentIO

\* _classify_node returns the whole state, its messages included
ChannelClassify ==
    /\ classify_node
    /\ channel_messages' = add(channel_messages, channel_messages)
    /\ UNCHANGED agent_io

\* _route_node returns the whole state unless it raises
ChannelRoute ==
    /\ route_node
    /\ channel_messages' =
          IF pc' = "END" THEN channel_messages
          ELSE add(channel_messages, channel_messages)
    /\ UNCHANGED agent_io

\* _agent_node returns the whole state: with state["messages"] = messages +
\* [response] after a successful invocation, with the messages it was given
\* after a failed one
ChannelAgent ==
    /\ agent_node
    /\ LET ok == invoked'.ok
           n == tool_calls_made' - tool_calls_made
           returned == IF ok THEN Append(ManagedMessages, Response(n))
                       ELSE channel_messages
       IN  /\ channel_messages' = add(channel_messages, returned)
           /\ agent_io' = [done |-> TRUE, ok |-> ok, before |-> channel_messages,
                           invoked_with |-> IF ok THEN ManagedMessages ELSE <<>>,
                           response |-> IF ok THEN Response(n).id ELSE 0,
                           tool_calls |-> n]

\* ToolNode returns the tool messages only
ChannelTools ==
    /\ tools_node
    /\ channel_messages' = add(channel_messages, ToolMessages)
    /\ UNCHANGED agent_io

\* agent.max_iterations of the runs whose messages are followed
ChannelMaxIterations == 5

\* a process with both tiers configured, without sticky models
InitChannel ==
    /\ InitSystem
    /\ local_model # None
    /\ remote_model # None
    /\ InitRun
    /\ sticky_model = FALSE
    /\ last_successful_local_model = None
    /\ last_successful_remote_model = None
    /\ prefer_local = TRUE
    /\ cfg_force_model = None
    /\ max_iterations = ChannelMaxIterations
    /\ InitRouterIdle
    /\ InitMemoryIdle
    /\ InitExtIdle

NextChannel ==
    Initialize \/ ChannelStart \/ ChannelClassify \/ ChannelRoute \/ ChannelAgent
        \/ ChannelTools

SpecChannel == InitChannel /\ [][NextChannel]_vars

\* ------------------------------------------------------------------------
\* The CLI session and its routing mode (src/src/service.py)
\* ------------------------------------------------------------------------

\* the commands that set the mode
Modes == {"local", "remote", "auto"}

\* the force_model a mode command assigns
ForceModelOf(mode) == IF mode = "auto" THEN None ELSE mode

\* yaml.dump of the value of the key
yaml_dump(value) == IF value = None THEN "null" ELSE value

\* yaml.safe_load and config.get_user_force_model(): None for a key that is
\* absent or null
yaml_load(text) == IF text \in {"absent", "null"} THEN None ELSE text

\* `config.get_user_force_model() or "local"`
LoadedForceModel(value) == IF value = None THEN "local" ELSE value

cli_frame ==
    /\ UNCHANGED <<lock_vars, config_vars, obs_lock_vars, state_vars, obs_run_vars,
                   agent_vars, router_vars, memory_vars, relockers, cls_query, cls_result,
                   store_call, config_file, switch_call, channel_vars>>

\* a process starts and enters run_cli_mode: Config() loads config.yaml and
\* the session's force_model is read from it
CliStart ==
    /\ ~cli.running
    /\ user_force_model' = yaml_load(file_user_force_model)
    /\ cli' = [cli EXCEPT !.running = TRUE,
                          !.force_model = LoadedForceModel(user_force_model'),
                          !.fresh = TRUE, !.shown = "none", !.ran = FALSE,
                          !.run_force_model = None]
    /\ UNCHANGED file_user_force_model
    /\ cli_frame

\* the command 'local', 'remote' or 'auto': force_model is assigned, then
\* config.set_user_force_model sets the value in memory and writes
\* config.yaml; when the write raises the loop's handler prints the error
\* and the mode is not reported
CliSetMode(mode, w) ==
    /\ cli.running
    /\ user_force_model' = ForceModelOf(mode)
    /\ file_user_force_model' =
          IF w = "ok" THEN yaml_dump(user_force_model') ELSE file_user_force_model
    /\ cli' = [cli EXCEPT !.force_model = ForceModelOf(mode),
                          !.fresh = FALSE,
                          !.reported = IF w = "ok" THEN mode ELSE cli.reported]
    /\ cli_frame

\* a prompt: the task carries the session's force_model and process_tasks
\* passes it to agent.run (the run itself is followed in Spec)
CliPrompt ==
    /\ cli.running
    /\ cli' = [cli EXCEPT !.ran = TRUE, !.run_force_model = cli.force_model]
    /\ UNCHANGED <<user_force_model, file_user_force_model>>
    /\ cli_frame

\* `config.get_user_force_model() or "auto"` of _show_current_model
ShownMode(value) == IF value = None THEN "auto" ELSE value

\* the command 'current': _show_current_model prints the mode
CliCurrent ==
    /\ cli.running
    /\ cli' = [cli EXCEPT !.shown = ShownMode(user_force_model)]
    /\ UNCHANGED <<user_force_model, file_user_force_model>>
    /\ cli_frame

\* 'exit': the session and its process end
CliExit ==
    /\ cli.running
    /\ cli' = [cli EXCEPT !.running = FALSE, !.force_model = None, !.fresh = FALSE,
                          !.shown = "none", !.ran = FALSE, !.run_force_model = None]
    /\ user_force_model' = None
    /\ UNCHANGED file_user_force_model
    /\ cli_frame

\* config.yaml holds no mode, or the mode of an earlier session
InitCli ==
    /\ InitSystem
    /\ local_model # None
    /\ remote_model # None
    /\ InitRun
    /\ sticky_model = FALSE
    /\ last_successful_local_model = None
    /\ last_successful_remote_model = None
    /\ prefer_local = TRUE
    /\ cfg_force_model = None
    /\ max_iterations = DefaultMaxIterations
    /\ InitRouterIdle
    /\ InitMemoryIdle
    /\ InitRelockIdle
    /\ InitClassifierIdle
    /\ InitStoreIdle
    /\ InitChannelIdle
    /\ cli = NoCli
    /\ user_force_model = None
    /\ file_user_force_model \in {"absent", "null", "local", "remote"}

NextCli ==
    \/ CliStart
    \/ \E mode \in Modes, w \in WriteOutcomes : CliSetMode(mode, w)
    \/ CliPrompt
    \/ CliCurrent
    \/ CliExit

SpecCli == InitCli /\ [][NextCli]_vars

\* ------------------------------------------------------------------------
\* Properties
\* ------------------------------------------------------------------------

Running == pc \in {"classify", "route", "agent", "tools"}

\* C4: every started run reaches END (each node execution is eventually
\* followed by the next one), and retry_count and tool_calls_made never
\* decrease while the run goes on
C4_RunTerminates ==
    /\ [](Running => <>(pc = "END"))
    /\ [][Running /\ Running' =>
            retry_count' >= retry_count /\ tool_calls_made' >= tool_calls_made]_vars

\* C1: get_model(tier) never returns a model while the tier's lock is unset:
\* in that state the call fails with an error
C1_GetModelFailsWhenUnlocked ==
    (gm.outcome # None /\ gm.locked = None) => gm.outcome = "error"

\* C2: the relock of remote that follows a failed invocation of the locked
\* remote model A does not probe A again
C2_RelockSkipsFailedModel ==
    ( /\ last_node = "route"
      /\ retry_count > 0
      /\ route_relock # "none"
      /\ model_tier = "remote"
      /\ invoked.tier = "remote"
      /\ ~invoked.ok
      /\ invoked.locked # None
      /\ invoked.model = invoked.locked )
    => invoked.model \notin SeqToSet(probed.ids)

\* C3: between the first remote failure of a run and the fallback to local,
\* the retry path relocks or invokes at most 3 distinct remote model ids
C3_AtMostThreeRemoteModels == Cardinality(episode_ids) <= 3

\* a run has fallen back to local after three distinct remote models
C3_Witness == episode = "closed" /\ Cardinality(episode_ids) = 3 /\ model_tier = "local"

\* a run that went through tool calls and a failed invocation has ended
C4_Witness == pc = "END" /\ retry_count > 0 /\ tool_calls_made > 0 /\ run_outcome = "returned"

\* C5: run() never raises to its caller
C5_RunNeverRaises == run_outcome # "raised"

\* C6: after a failed invocation the next step is route (retry) when
\* retry_count < max_iterations // 2 and the end in an error state otherwise
C6_FailureRetriesOrErrors ==
    (last_node = "agent" /\ invoked.tier # None /\ ~invoked.ok)
    => decision = (IF retry_count < max_iterations \div 2 THEN "retry" ELSE "error")

\* C7: when the relock of the route step leaves the routed tier unlocked, the
\* agent step that follows invokes no model of that tier
C7_NoInvocationAfterFailedRelock ==
    (last_node = "agent" /\ invoked.after = "route" /\ route_relock = "failed")
    => invoked.model = None

RouteCalled == route_result # None

RouteForce == EffectiveForce(route_args.force_model, cfg_force_model)

RouteTotalTokens == route_args.c.estimated_tokens + route_args.context_tokens

\* C8: route with a force override (parameter, else configuration) naming an
\* available tier returns that tier
C8_ForceOverrideWins ==
    \A t \in Tiers :
        (RouteCalled /\ RouteForce = t /\ tier_configured(t)) => route_result = t

\* a call forced to local that every other rule would send to remote
C8_Witness ==
    /\ RouteCalled
    /\ RouteForce = "local"
    /\ route_args.c.complexity = "complex"
    /\ RouteTotalTokens > 1000
    /\ is_local_available /\ is_remote_available
    /\ route_result = "local"

\* C9 as stated: with more than 1000 total tokens route returns remote
\* whenever remote is available
C9_LongContextToRemote ==
    (RouteCalled /\ RouteTotalTokens > 1000 /\ is_remote_available)
    => route_result = "remote"

\* C9 amended: with more than 1000 total tokens route returns remote whenever
\* remote is available, unless a force override names local and local is
\* available
C9_LongContextToRemoteUnlessForcedLocal ==
    ( /\ RouteCalled
      /\ RouteTotalTokens > 1000
      /\ is_remote_available
      /\ ~(RouteForce = "local" /\ is_local_available) )
    => route_result = "remote"

\* a simple task with a long context, both tiers available, no override
C9_Witness ==
    /\ RouteCalled
    /\ RouteTotalTokens > 1000
    /\ route_args.c.complexity = "simple"
    /\ RouteForce = None
    /\ is_local_available /\ is_remote_available
    /\ route_result = "remote"

C11_OnlyAvailableTierIsReturned ==
    \A t \in Tiers :
        ( /\ RouteCalled
          /\ tier_configured(t)
          /\ \A u \in Tiers \ {t} : ~tier_configured(u) )
        => route_result = t

\* only local is available; the override names remote and the long-context
\* and complexity rules would both choose remote
C11_Witness ==
    /\ RouteCalled
    /\ is_local_available /\ ~is_remote_available
    /\ RouteForce = "remote"
    /\ route_args.c.complexity = "complex"
    /\ RouteTotalTokens > 1000
    /\ route_result = "local"

\* C12: a route call with the arguments of the call before it, under the same
\* configuration and availability, returns the same tier, and a route call
\* changes neither the lock manager's state, nor the configuration, nor the
\* agent's state
C12_RouteDeterministic ==
    /\ [](route_prev.same_args => route_result = route_prev.result)
    /\ [][(route_args' # route_args \/ route_result' # route_result
             \/ route_prev' # route_prev)
          => UNCHANGED <<lock_vars, config_vars, state_vars, agent_vars>>]_vars

\* the same call made twice in a row, decided by the complexity rules
C12_Witness ==
    /\ route_prev.same_args
    /\ RouteForce = None
    /\ is_local_available /\ is_remote_available
    /\ route_args.c.complexity = "medium"
    /\ route_result = "local"
    /\ route_prev.result = "local"

\* C13: should_escalate returns remote when the current tier is local and
\* remote is available, and the current tier in every other case, whatever
\* the error text
C13_EscalateOnlyLocalToRemote ==
    escalation.result # None =>
        escalation.result =
            (IF escalation.current_tier = "local" /\ is_remote_available
             THEN "remote" ELSE escalation.current_tier)

\* a failure on local with no remote tier: no escalation
C13_Witness ==
    /\ escalation.current_tier = "local"
    /\ escalation.error = "msg"
    /\ ~is_remote_available
    /\ escalation.result = "local"

MemCalled == mm_call.op # "none"

\* the budget of the latest memory call
MemBudget == AvailableTokens(mm_call.model_id, mm_call.tier)

\* the history token truncation was applied to in the latest memory call
MemTruncated ==
    IF mm_call.op = "manage_context" THEN ApplyMessageLimit(mm_call.messages)
    ELSE mm_call.messages

\* the latest memory call went into the sliding-window truncation
SlidingApplied ==
    /\ MemCalled
    /\ MemBudget > 0
    /\ estimate_tokens(MemTruncated) > MemBudget

SystemOf(messages) == SelectSeq(messages, IsSystem)

ConversationOf(messages) == SelectSeq(messages, IsConversation)

\* number of occurrences of m in messages
Occurrences(m, messages) == Cardinality({i \in 1..Len(messages) : messages[i] = m})

SameMessages(a, b) == \A m \in MessageKinds : Occurrences(m, a) = Occurrences(m, b)

IsSuffixOf(a, b) == Len(a) <= Len(b) /\ a = SubSeq(b, Len(b) - Len(a) + 1, Len(b))

RECURSIVE SumOfEstimates(_)
\* sum of the estimates of the messages taken one by one
SumOfEstimates(messages) ==
    IF messages = <<>> THEN 0
    ELSE estimate_tokens(<<Head(messages)>>) + SumOfEstimates(Tail(messages))

C15_ManageContextIdempotent == mm_again.done => mm_again.out = mm_result

\* C16: when a memory call returns fewer messages than it was given, the
\* result starts with all system messages of the input, in their order, and
\* has no other system message
C16_SystemMessagesKept ==
    (MemCalled /\ Len(mm_result) < Len(mm_call.messages))
    => /\ IsSuffixOf(ConversationOf(mm_result), mm_result)
       /\ SystemOf(mm_result) = SystemOf(mm_call.messages)

\* C17: after sliding-window truncation the result is the system messages
\* followed by kept conversation messages in the order of the input (a
\* suffix of the input's conversation)
C17_KeptInChronologicalOrder ==
    SlidingApplied
    => /\ mm_result = SystemOf(mm_result) \o ConversationOf(mm_result)
       /\ IsSuffixOf(ConversationOf(mm_result), ConversationOf(mm_call.messages))

\* C18: with a positive budget the estimate of the returned list is at most
\* the budget
C18_ResultFitsBudget ==
    (MemCalled /\ MemBudget > 0) => estimate_tokens(mm_result) <= MemBudget

\* the budget left for the conversation after the system messages
BudgetAfterSystem == MemBudget - estimate_tokens(SystemOf(MemTruncated))

\* the longest suffix of the conversation whose one-by-one estimates sum to
\* at most the budget left (none fits a negative budget)
LongestFittingSuffix ==
    LET conv == ConversationOf(MemTruncated)
        fitting == {k \in 0..Len(conv) : SumOfEstimates(LastN(conv, k)) <= BudgetAfterSystem}
    IN  IF fitting = {} THEN <<>>
        ELSE LastN(conv, CHOOSE k \in fitting : \A j \in fitting : j <= k)

\* C19: when token truncation applies, the kept conversation messages are
\* exactly those of the longest suffix of the conversation whose estimates
\* sum to at most the budget left after the system messages
C19_KeepsLongestFittingSuffix ==
    SlidingApplied => SameMessages(ConversationOf(mm_result), LongestFittingSuffix)

\* the walk stopped at a message that does not fit, and dropped an older
\* message that would still have fitted
C19_Witness ==
    /\ SlidingApplied
    /\ ConversationOf(mm_result) # <<>>
    /\ LET conv == ConversationOf(MemTruncated)
           left == BudgetAfterSystem - SumOfEstimates(ConversationOf(mm_result))
       IN  /\ Len(conv) >= Len(ConversationOf(mm_result)) + 2
           /\ estimate_tokens(<<conv[1]>>) <= left
           /\ estimate_tokens(<<conv[1]>>) > 0

ConfiguredIds(tier) == SeqToSet(available_models(tier))

\* C21: a tier's locked model id, when set, is one of the tier's configured
\* candidates
C21_LockedModelIsCandidate ==
    \A t \in Tiers : get_locked_model(t) # None => get_locked_model(t) \in ConfiguredIds(t)

IsPrefixOf(a, b) == Len(a) <= Len(b) /\ a = SubSeq(b, 1, Len(a))

\* the probes a pass of tier t makes when all of them fail, in the state the
\* pass starts in
ExpectedProbes(t) ==
    IF ~tier_configured(t) THEN <<>>
    ELSE (IF sticky_model /\ get_last_successful_model(t) # None
          THEN <<get_last_successful_model(t)>> ELSE <<>>) \o available_models(t)

\* C23: a pass probes the sticky model (sticky enabled and a value stored)
\* and then the candidates in configured order, up to the first probe that
\* passes; it locks that model; when no probe passes it has probed all of
\* them and leaves the lock as it was
C23_PassProbesInOrder ==
    [][probed'.tier # None =>
          LET t == probed'.tier
              lock_after == IF t = "local" THEN locked_local_model' ELSE locked_remote_model'
          IN  /\ IsPrefixOf(probed'.ids, ExpectedProbes(t))
              /\ probed'.passed =>
                    /\ probed'.ids # <<>>
                    /\ lock_after = probed'.ids[Len(probed'.ids)]
              /\ ~probed'.passed =>
                    /\ probed'.ids = ExpectedProbes(t)
                    /\ lock_after = get_locked_model(t)]_vars

\* a local pass with a stored sticky model: the sticky model and the first
\* candidate failed, the second candidate is locked
C23_Witness ==
    /\ probed.tier = "local" /\ probed.passed
    /\ probed.ids = <<StaleModel, LocalModels[1], LocalModels[2]>>
    /\ locked_local_model = LocalModels[2]

\* C24: when the passes of two callers on the same tier overlap, no model id
\* is probed by both of them
C24_NoModelProbedByBothCallers ==
    \A c \in Callers : \A d \in relockers[c].overlapped :
        SeqToSet(relockers[c].probed) \cap SeqToSet(relockers[d].probed) = {}

HeuristicAnswered == cls_result.path \in {"heuristic", "raises", "malformed"}

\* C26 (as stated): the heuristic gives simple/50 for a greeting or
\* definition keyword in fewer than 10 words, else complex/600 for an
\* authoring keyword, else complex/800 for more than 50 words or an
\* analytical keyword, else medium/200
C26_HeuristicRulesWithAuthoring ==
    HeuristicAnswered =>
        LET q == cls_query
            c == cls_result.classification
        IN  IF q.words < 10 /\ q.greeting
            THEN c.complexity = "simple" /\ c.estimated_tokens = 50
            ELSE IF q.authoring
            THEN c.complexity = "complex" /\ c.estimated_tokens = 600
            ELSE IF q.words > 50 \/ q.analytical
            THEN c.complexity = "complex" /\ c.estimated_tokens = 800
            ELSE c.complexity = "medium" /\ c.estimated_tokens = 200

\* C26 (amended): the heuristic gives simple/50 for a greeting or definition
\* keyword in fewer than 10 words, else code/300 for a programming keyword,
\* else complex/800 for more than 50 words or an analytical keyword, else
\* medium/200; an authoring keyword changes nothing
C26_HeuristicRulesWithCode ==
    HeuristicAnswered =>
        LET q == cls_query
            c == cls_result.classification
            first == q.words < 10 /\ q.greeting
            third == q.words > 50 \/ q.analytical
        IN  /\ first => (c.complexity = "simple" /\ c.estimated_tokens = 50)
            /\ (~first /\ q.code) => (c.complexity = "code" /\ c.estimated_tokens = 300)
            /\ (~first /\ ~q.code /\ third) =>
                    (c.complexity = "complex" /\ c.estimated_tokens = 800)
            /\ (~first /\ ~q.code /\ ~third) =>
                    (c.complexity = "medium" /\ c.estimated_tokens = 200)

C26_Witness ==
    /\ cls_result.path = "heuristic"
    /\ cls_query.authoring /\ cls_query.code /\ cls_query.analytical
    /\ cls_query.words = 10 /\ cls_query.greeting
    /\ cls_result.classification.complexity = "code"

\* C27: once set_last_successful_model(tier, m) was called, the value read
\* for that tier is m until the next set for that tier (None included), a
\* get returns it, and a set for one tier leaves the value of the other tier
\* as it was
C27_StickyStoreRoundTrip ==
    /\ [](\A tier \in Tiers :
            store_call.last_set[tier] # "unset" =>
                /\ get_last_successful_model(tier) = store_call.last_set[tier]
                /\ (store_call.op = "get" /\ store_call.tier = tier) =>
                        store_call.value = store_call.last_set[tier])
    /\ [][(store_call'.op = "set" /\ store_call' # store_call) =>
            /\ store_call'.tier = "local" =>
                    last_successful_remote_model' = last_successful_remote_model
            /\ store_call'.tier = "remote" =>
                    last_successful_local_model' = last_successful_local_model]_vars

C27_Witness ==
    /\ store_call.op = "get"
    /\ store_call.tier = "local"
    /\ store_call.value = None
    /\ store_call.last_set.local = None
    /\ store_call.last_set.remote = RemoteModels[2]
    /\ last_successful_remote_model = RemoteModels[2]
    /\ config_file.local = StaleModel

\* the agent node has just run a successful invocation whose response
\* carries tool calls
AnsweredWithToolCalls ==
    /\ last_node = "agent"
    /\ invoked.ok
    /\ last_message = "ai_tool_calls"

\* C28: the tools node is entered only directly after a successful
\* invocation whose response carries tool calls and with tool_calls_made <
\* max_iterations; with tool_calls_made >= max_iterations the run ends with
\* the tool calls pending; after the tools node the agent node runs
C28_ToolsOnlyWithinLimit ==
    /\ pc = "tools" =>
          (AnsweredWithToolCalls /\ ~Truthy(error) /\ tool_calls_made < max_iterations)
    /\ (AnsweredWithToolCalls /\ tool_calls_made >= max_iterations) =>
          (pc = "END" /\ run_outcome = "returned")
    /\ last_node = "tools" => pc = "agent"

C28_Witness ==
    /\ AnsweredWithToolCalls
    /\ invoked.after = "tools"
    /\ tool_calls_made >= max_iterations
    /\ pc = "END"

\* the step is an invocation of the agent node that fails
AgentInvocationFails == pc = "agent" /\ last_node' = "agent" /\ ~invoked'.ok

\* C29: a failed agent invocation on tier T clears the lock of T, records
\* the error, adds exactly 1 to retry_count and leaves the lock of the other
\* tier, tool_calls_made and remote_retry_count as they were; within a run
\* retry_count never decreases, and a successful invocation leaves it as it is
C29_FailedInvocationEffect ==
    /\ [][AgentInvocationFails =>
            /\ model_tier = "local" =>
                  (locked_local_model' = None /\ locked_remote_model' = locked_remote_model)
            /\ model_tier = "remote" =>
                  (locked_remote_model' = None /\ locked_local_model' = locked_local_model)
            /\ error' # None
            /\ retry_count' = retry_count + 1
            /\ tool_calls_made' = tool_calls_made
            /\ remote_retry_count' = remote_retry_count]_vars
    /\ [][pc \notin {"idle", "END"} => retry_count' >= retry_count]_vars
    /\ [][(pc = "agent" /\ last_node' = "agent" /\ invoked'.ok) =>
            retry_count' = retry_count]_vars

C29_Witness ==
    /\ last_node = "agent"
    /\ ~invoked.ok
    /\ invoked.tier = "remote"
    /\ invoked.locked # None
    /\ retry_count = 2
    /\ tool_calls_made > 0
    /\ error # None
    /\ locked_local_model # None
    /\ locked_remote_model = None

\* the agent node has just run a successful invocation in a run whose
\* messages are followed
AgentSucceeded == last_node = "agent" /\ agent_io.done /\ agent_io.ok

\* no message occurs twice in the sequence
NoDuplicates(messages) ==
    \A i, j \in 1..Len(messages) : messages[i].id = messages[j].id => i = j

\* C30: after a successful agent invocation the messages of the run are the
\* managed history the model was invoked with followed by the response, no
\* message occurs twice, error is None, and tool_calls_made has grown by the
\* number of tool calls of the response (the last message)
C30_SuccessAppendsOneMessage ==
    AgentSucceeded =>
        LET last == channel_messages[Len(channel_messages)] IN
        /\ Len(channel_messages) = Len(agent_io.invoked_with) + 1
        /\ SubSeq(channel_messages, 1, Len(agent_io.invoked_with)) = agent_io.invoked_with
        /\ last.id = agent_io.response
        /\ NoDuplicates(channel_messages)
        /\ error = None
        /\ last.tool_calls = agent_io.tool_calls

\* C31: whenever the route node hands control to the agent node, the tier
\* it selected is locked or the route node called relock_model for it in
\* that step
C31_AgentEnteredLockedOrRetested ==
    (last_node = "route" /\ pc = "agent") =>
        (get_locked_model(model_tier) # None \/ route_relock # "none")

\* the run has made only remote invocations and all of them failed: no
\* response was received (a response without tool calls ends the run), and
\* every failure but the first was followed by the retry on remote
OnlyFailedRemoteInvocations ==
    /\ last_node = "agent"
    /\ invoked.tier = "remote"
    /\ ~invoked.ok
    /\ tool_calls_made = 0
    /\ retry_count = remote_retry_count + 1

\* C32: with the local tier available, a run whose remote invocations all
\* fail does not end on remote: it goes on to the fallback to local (and so
\* has not ended after a failed remote invocation)
C32_RemoteFailuresFallBackToLocal ==
    (OnlyFailedRemoteInvocations /\ is_local_available) => pc # "END"

\* C33: in a run started with force_model = local while local is available
\* the route node never selects remote, so no remote model is relocked or
\* invoked by the run; and a run forced to remote while remote is available
\* never selects local
C33_ForcedTierIsKept ==
    /\ (force_model = "local" /\ is_local_available) => model_tier # "remote"
    /\ (force_model = "remote" /\ is_remote_available) => model_tier # "local"

\* C34: a get_model(tier) call made while the tier is locked returns the
\* instance of the locked model
C34_GetModelReturnsLockedModel ==
    (gm.outcome = "model" /\ gm.locked # None) => gm.model = gm.locked

\* C38: a switch_remote_model call with an id that is not an available
\* remote model raises ValueError and leaves the active remote model id,
\* the remote model instance and both locks as they were
C38_RejectedSwitchChangesNothing ==
    /\ [](switch_call.outcome # "none" =>
            (switch_call.outcome = "error" <=>
                (switch_call.model_id \notin RemoteIds \/ ~is_remote_available)))
    /\ [][(switch_call' # switch_call /\ switch_call'.model_id \notin RemoteIds) =>
            /\ switch_call'.outcome = "error"
            /\ UNCHANGED <<cfg_remote_model, remote_model, current_remote_model,
                           locked_local_model, locked_remote_model>>]_vars

C38_Witness ==
    /\ switch_call.outcome = "error"
    /\ switch_call.model_id = StaleModel
    /\ locked_remote_model = RemoteModels[2]
    /\ remote_model = RemoteModels[1]
    /\ cfg_remote_model = RemoteModels[1]

\* C35: when at least one tier is available, the tier the route node writes
\* to model_tier is an available one, on the fresh run and on every retry
\* branch
C35_RoutedTierIsAvailable ==
    (last_node = "route" /\ pc = "agent" /\ (is_local_available \/ is_remote_available))
        => tier_configured(model_tier)

\* the step is a route node that takes the retry on remote and hands over
\* to the agent node
RetryOnRemoteStep == pc = "route" /\ RouteRetryRemote /\ pc' = "agent"

\* C36: with max_iterations >= 2, retry_count <= max_iterations // 2 and
\* remote_retry_count <= 3 in every state; within a run, the retry on remote
\* adds exactly 1 to remote_retry_count and no other step changes it
C36_RetryCountersBounded ==
    /\ [](max_iterations >= 2 =>
            (retry_count <= max_iterations \div 2 /\ remote_retry_count <= 3))
    /\ [][pc \notin {"idle", "END"} =>
            remote_retry_count' =
                (IF RetryOnRemoteStep THEN remote_retry_count + 1
                 ELSE remote_retry_count)]_vars

C36_Witness ==
    /\ max_iterations = 10
    /\ retry_count = 5
    /\ remote_retry_count = 3
    /\ pc = "END"

RestartedAfterReport == cli.running /\ cli.fresh /\ cli.reported # "none"

\* C39: a CLI session started after a mode was reported as persisted starts
\* with the force_model of that mode (None for 'auto') and passes it to run
C39_ModePersistsAcrossRestart ==
    RestartedAfterReport =>
        /\ cli.force_model = ForceModelOf(cli.reported)
        /\ cli.ran => cli.run_force_model = ForceModelOf(cli.reported)

====
